---- MODULE Spec2Model ----
(***************************************************************************)
(* Achievement lifecycle of the school back end: the reference store       *)
(* (achievement_references, PostgreSQL), the content store (achievements,  *)
(* MongoDB) and the service handlers that sequence them.                   *)
(*                                                                         *)
(* Every SQL / Mongo statement is one atomic step.  A handler that issues  *)
(* a single statement against mutable data is one action; a handler that   *)
(* issues several keeps its position and locals in a slot of procs, so     *)
(* that other requests interleave between its statements.                  *)
(*                                                                         *)
(* NOW() is modelled per row: a row's clock counts the statements that     *)
(* have written the row, so two writes of one row never carry the same     *)
(* time and the order of the writes of a row is observable.                *)
(***************************************************************************)
EXTENDS Integers, Sequences, FiniteSets, TLC

\* ------------------------------------------------------------------ bounds
\* Number of Create requests that reach the content store.
MaxCreates == 2
\* The same, in the specification of the lifecycle of one row.
MaxCreatesOne == 1
\* Number of steps of the clock.
MaxClock == 3

\* Number of handlers that can be between two of their statements at once.
NProcs == 1
\* The same, in the specification of concurrent HardDelete requests.
NProcsPurge == 2

Procs == 1..NProcs
PurgeProcs == 1..NProcsPurge
\* The slots of procs: enough for every specification.
Slots == Procs \cup PurgeProcs
RefIds == 1..MaxCreates
MongoIds == 1..MaxCreates

\* ------------------------------------------------------------ null values
\* A NULL uuid column / an unset context local.
NULL == "NULL"
\* A NULL timestamp column (row clocks start at 1).
NoTime == 0
\* A nil *string, and a pointer to the string s.
Nil == << >>
Ptr(s) == << s >>
Deref(p) == p[1]

\* --------------------------------------------------------------- statuses
AchievementStatusDraft == "draft"
AchievementStatusSubmitted == "submitted"
AchievementStatusVerified == "verified"
AchievementStatusRejected == "rejected"
AchievementStatusDeleted == "deleted"

\* ---------------------------------------------------------------- strings
\* A string is a sequence of one-character strings.
RECURSIVE TrimLeft(_)
TrimLeft(s) == IF s # << >> /\ Head(s) = " " THEN TrimLeft(Tail(s)) ELSE s

RECURSIVE TrimRight(_)
TrimRight(s) ==
    IF s # << >> /\ s[Len(s)] = " " THEN TrimRight(SubSeq(s, 1, Len(s) - 1)) ELSE s

TrimSpace(s) == TrimRight(TrimLeft(s))

\* The rejection notes a review request carries: none, "", " ", "x", " x".
Notes == { Nil, Ptr(<< >>), Ptr(<<" ">>), Ptr(<<"x">>), Ptr(<<" ", "x">>) }

\* strings.ToLower(strings.TrimSpace(.)) on the status texts of the review
\* requests: "verified", "rejected", " Verified", "draft".
LowerTrim(s) == IF s = " Verified" THEN "verified" ELSE s

\* ------------------------------------------------------------ directories
\* Accounts (users.id), their role (roles.name as stored) and the student /
\* lecturer record of each account.
Users == { "uAdmin", "uS1", "uS2", "uL1", "uL2", "uStaff" }
\* Accounts that only list: a student role without a student record, an
\* advisor role without a lecturer record, a role no handler knows.
Accounts == Users \cup { "uS0", "uL0", "uGuest" }
RoleNameOf ==
    [ uAdmin |-> "Admin", uS1 |-> "Mahasiswa", uS2 |-> "Mahasiswa",
      uL1 |-> "Dosen Wali", uL2 |-> "Dosen Wali", uStaff |-> "Staff",
      uS0 |-> "Mahasiswa", uL0 |-> "Dosen Wali", uGuest |-> "Guest" ]
ToLower ==
    [ Admin |-> "admin", Mahasiswa |-> "mahasiswa", Staff |-> "staff",
      Guest |-> "guest" ]
    @@ ("Dosen Wali" :> "dosen wali")

StudentIds == { "S1", "S2" }
LecturerIds == { "L1", "L2" }
StudentUserOf == [ S1 |-> "uS1", S2 |-> "uS2" ]
LecturerUserOf == [ L1 |-> "uL1", L2 |-> "uL2" ]
\* uuid.Nil in an UpdateStudentRequest: "set advisor_id to NULL".
UuidNil == "00000000"

VARIABLES
    refs,       \* achievement_references: RefIds -> row, or NoRow
    contents,   \* achievements collection: MongoIds -> document, or NoDoc
    nextRef,    \* next id the reference store assigns
    nextMongo,  \* next ObjectID the content store assigns
    advisor,    \* students.advisor_id: StudentIds -> LecturerIds or NULL
    procs,      \* handlers between two statements
    resp,       \* the response the last finished handler sent
    hist,       \* per row: the transition that produced its current status
    is_active,  \* users.is_active: Accounts -> BOOLEAN
    issued,     \* the JWTs GenerateJWTPostgres has signed so far
    clock,      \* time.Now(), in steps
    loggedOut   \* the JWTs issued before a successful Logout of their user
                \* and not signed again since

authVars == << is_active, issued, clock, loggedOut >>
vars == << refs, contents, nextRef, nextMongo, advisor, procs, resp, hist,
           is_active, issued, clock, loggedOut >>

NoRow == [ status |-> "none" ]
NoDoc == [ ID |-> 0, studentId |-> NULL ]
Idle == [ op |-> "idle" ]
NoHist == [ op |-> "none", note |-> Nil, submitOK |-> 0, submitLost |-> FALSE ]

Present(r) == r \in RefIds /\ refs[r] # NoRow

\* ------------------------------------------------------------------ errors
\* The error texts of the repositories; OK is the nil error.
OK == "nil"
ErrSubmitGuard ==
    "achievement tidak ditemukan atau bukan milik anda atau status bukan draft"
ErrReviewInvalid == "status review tidak valid"
ErrReviewGuard == "achievement tidak ditemukan atau status bukan submitted"
ErrDeleteGuard == "achievement tidak ditemukan atau sudah berstatus deleted"
ErrDeleteByStudentGuard ==
    "achievement tidak ditemukan atau bukan milik anda atau status bukan draft"
ErrHardDeleteGuard ==
    "achievement reference tidak ditemukan atau status bukan deleted"
ErrRefNotFound == "achievement reference tidak ditemukan"
ErrMongoNotFound == "achievement mongo tidak ditemukan"
\* fmt.Errorf("gagal ...: %w", err): the driver's error, wrapped.
ErrCreateDraftDb == "gagal membuat draft achievement reference"
ErrSubmitDb == "gagal submit achievement"
ErrReviewDb == "gagal review achievement"
ErrDeleteDb == "gagal menghapus (soft delete) achievement"
ErrDeleteByStudentDb == "gagal menghapus (soft delete) achievement oleh student"
ErrHardDeleteDb == "gagal hard delete achievement_reference"
ErrGetByIDDb == "gagal mengambil achievement reference"
ErrListDb == "gagal menghitung total achievement_references"
ErrMongoCreateDb == "gagal menyimpan achievement ke MongoDB"
ErrMongoDeleteDb == "gagal menghapus achievement mongo"
ErrMongoGetDb == "gagal mengambil achievements by ids"

\* strings.Contains(strings.ToLower(msg), "tidak ditemukan")
ContainsTidakDitemukan(msg) ==
    msg \in { ErrSubmitGuard, ErrReviewGuard, ErrDeleteGuard, ErrDeleteByStudentGuard,
              ErrHardDeleteGuard, ErrRefNotFound, ErrMongoNotFound }
\* strings.Contains(strings.ToLower(msg), "bukan milik")
ContainsBukanMilik(msg) == msg \in { ErrSubmitGuard, ErrDeleteByStudentGuard }

\* -------------------------------------------------------- reference store
\* NOW() of a statement that writes row.
Now(row) == row.updated_at + 1

\* Variant: CreateDraft pointing every row at the first content record.
CreateDraftFirstContent(t, id, studentID, mongoID, dbErr) ==
    IF dbErr
    THEN [ err |-> ErrCreateDraftDb, id |-> 0, refs |-> t ]
    ELSE [ err |-> OK, id |-> id,
           refs |-> [ t EXCEPT ![id] =
                        [ student_id |-> studentID,
                          mongo_achievement_id |-> 1,
                          status |-> AchievementStatusDraft,
                          submitted_at |-> NoTime,
                          verified_at |-> NoTime,
                          verified_by |-> NULL,
                          rejection_note |-> Nil,
                          created_at |-> id,
                          updated_at |-> 1 ] ] ]

\* INSERT INTO achievement_references (student_id, mongo_achievement_id,
\* status) ... RETURNING id; the other columns take their defaults.
CreateDraft(t, id, studentID, mongoID, dbErr) ==
    IF dbErr
    THEN [ err |-> ErrCreateDraftDb, id |-> 0, refs |-> t ]
    ELSE [ err |-> OK, id |-> id,
           refs |-> [ t EXCEPT ![id] =
                        [ student_id |-> studentID,
                          mongo_achievement_id |-> mongoID,
                          status |-> AchievementStatusDraft,
                          submitted_at |-> NoTime,
                          verified_at |-> NoTime,
                          verified_by |-> NULL,
                          rejection_note |-> Nil,
                          created_at |-> id,
                          updated_at |-> 1 ] ] ]

\* Variant: the WHERE clause of SubmitDraft without its status conjunct.
SubmitDraftWhereAnyStatus(t, refID, studentID) ==
    /\ refID \in DOMAIN t
    /\ t[refID] # NoRow
    /\ t[refID].student_id = studentID

SubmitDraftWhere(t, refID, studentID) ==
    /\ refID \in DOMAIN t
    /\ t[refID] # NoRow
    /\ t[refID].student_id = studentID
    /\ t[refID].status = AchievementStatusDraft

\* Variant: SubmitDraft writing submitted_at without moving the status.
SubmitDraftKeepsDraft(t, refID, studentID, dbErr) ==
    IF dbErr THEN [ err |-> ErrSubmitDb, refs |-> t ]
    ELSE IF ~SubmitDraftWhere(t, refID, studentID)
    THEN [ err |-> ErrSubmitGuard, refs |-> t ]
    ELSE [ err |-> OK,
           refs |-> [ t EXCEPT ![refID] =
                        [ @ EXCEPT !.submitted_at = Now(t[refID]),
                                   !.updated_at = Now(t[refID]) ] ] ]

SubmitDraft(t, refID, studentID, dbErr) ==
    IF dbErr THEN [ err |-> ErrSubmitDb, refs |-> t ]
    ELSE IF ~SubmitDraftWhere(t, refID, studentID)
    THEN [ err |-> ErrSubmitGuard, refs |-> t ]
    ELSE [ err |-> OK,
           refs |-> [ t EXCEPT ![refID] =
                        [ @ EXCEPT !.status = AchievementStatusSubmitted,
                                   !.submitted_at = Now(t[refID]),
                                   !.updated_at = Now(t[refID]) ] ] ]

\* Variant: Review binding the note of the request whatever the status.
RejectionNoteOfAnyStatus(status, note) ==
    IF note # Nil
    THEN IF TrimSpace(Deref(note)) = << >> THEN Nil ELSE Ptr(TrimSpace(Deref(note)))
    ELSE Nil

\* The value bound to rejection_note by Review.
RejectionNoteOf(status, note) ==
    IF status = AchievementStatusRejected /\ note # Nil
    THEN IF TrimSpace(Deref(note)) = << >> THEN Nil ELSE Ptr(TrimSpace(Deref(note)))
    ELSE Nil

\* Variant: the WHERE clause of Review without its status conjunct.
ReviewWhereAnyStatus(t, refID) ==
    /\ refID \in DOMAIN t
    /\ t[refID] # NoRow

ReviewWhere(t, refID) ==
    /\ refID \in DOMAIN t
    /\ t[refID] # NoRow
    /\ t[refID].status = AchievementStatusSubmitted

Review(t, refID, status, adminID, note, dbErr) ==
    LET st == LowerTrim(status) IN
    IF st # AchievementStatusVerified /\ st # AchievementStatusRejected
    THEN [ err |-> ErrReviewInvalid, refs |-> t ]
    ELSE IF dbErr THEN [ err |-> ErrReviewDb, refs |-> t ]
    ELSE IF ~ReviewWhere(t, refID)
    THEN [ err |-> ErrReviewGuard, refs |-> t ]
    ELSE [ err |-> OK,
           refs |-> [ t EXCEPT ![refID] =
                        [ @ EXCEPT !.status = st,
                                   !.verified_at = Now(t[refID]),
                                   !.verified_by = adminID,
                                   !.rejection_note = RejectionNoteOf(st, note),
                                   !.updated_at = Now(t[refID]) ] ] ]

\* Variant: the WHERE clause of Delete without its status conjunct.
DeleteWhereAnyStatus(t, refID) ==
    /\ refID \in DOMAIN t
    /\ t[refID] # NoRow

DeleteWhere(t, refID) ==
    /\ refID \in DOMAIN t
    /\ t[refID] # NoRow
    /\ t[refID].status # AchievementStatusDeleted

\* Variant: the administrator's Delete without rejection_note = NULL.
DeleteKeepsNote(t, refID, adminID, dbErr) ==
    IF dbErr THEN [ err |-> ErrDeleteDb, refs |-> t ]
    ELSE IF ~DeleteWhere(t, refID)
    THEN [ err |-> ErrDeleteGuard, refs |-> t ]
    ELSE [ err |-> OK,
           refs |-> [ t EXCEPT ![refID] =
                        [ @ EXCEPT !.status = AchievementStatusDeleted,
                                   !.verified_at = Now(t[refID]),
                                   !.verified_by = adminID,
                                   !.updated_at = Now(t[refID]) ] ] ]

\* Variant: the administrator's Delete without verified_by = $2.
DeleteKeepsVerifier(t, refID, adminID, dbErr) ==
    IF dbErr THEN [ err |-> ErrDeleteDb, refs |-> t ]
    ELSE IF ~DeleteWhere(t, refID)
    THEN [ err |-> ErrDeleteGuard, refs |-> t ]
    ELSE [ err |-> OK,
           refs |-> [ t EXCEPT ![refID] =
                        [ @ EXCEPT !.status = AchievementStatusDeleted,
                                   !.verified_at = Now(t[refID]),
                                   !.rejection_note = Nil,
                                   !.updated_at = Now(t[refID]) ] ] ]

Delete(t, refID, adminID, dbErr) ==
    IF dbErr THEN [ err |-> ErrDeleteDb, refs |-> t ]
    ELSE IF ~DeleteWhere(t, refID)
    THEN [ err |-> ErrDeleteGuard, refs |-> t ]
    ELSE [ err |-> OK,
           refs |-> [ t EXCEPT ![refID] =
                        [ @ EXCEPT !.status = AchievementStatusDeleted,
                                   !.verified_at = Now(t[refID]),
                                   !.verified_by = adminID,
                                   !.rejection_note = Nil,
                                   !.updated_at = Now(t[refID]) ] ] ]

\* Variant: DeleteByStudent without the student_id conjunct of its WHERE.
DeleteByStudentWhereAnyOwner(t, refID, studentID) ==
    /\ refID \in DOMAIN t
    /\ t[refID] # NoRow
    /\ t[refID].status = AchievementStatusDraft

\* Variant: DeleteByStudent without the status conjunct of its WHERE.
DeleteByStudentWhereAnyStatus(t, refID, studentID) ==
    /\ refID \in DOMAIN t
    /\ t[refID] # NoRow
    /\ t[refID].student_id = studentID

DeleteByStudentWhere(t, refID, studentID) ==
    /\ refID \in DOMAIN t
    /\ t[refID] # NoRow
    /\ t[refID].student_id = studentID
    /\ t[refID].status = AchievementStatusDraft

\* Variant: DeleteByStudent recording the student in verified_by, as
\* Delete records the administrator.
DeleteByStudentSetsVerifier(t, refID, studentID, dbErr) ==
    IF dbErr THEN [ err |-> ErrDeleteByStudentDb, refs |-> t ]
    ELSE IF ~DeleteByStudentWhere(t, refID, studentID)
    THEN [ err |-> ErrDeleteByStudentGuard, refs |-> t ]
    ELSE [ err |-> OK,
           refs |-> [ t EXCEPT ![refID] =
                        [ @ EXCEPT !.status = AchievementStatusDeleted,
                                   !.verified_at = Now(t[refID]),
                                   !.verified_by = studentID,
                                   !.rejection_note = Nil,
                                   !.updated_at = Now(t[refID]) ] ] ]

DeleteByStudent(t, refID, studentID, dbErr) ==
    IF dbErr THEN [ err |-> ErrDeleteByStudentDb, refs |-> t ]
    ELSE IF ~DeleteByStudentWhere(t, refID, studentID)
    THEN [ err |-> ErrDeleteByStudentGuard, refs |-> t ]
    ELSE [ err |-> OK,
           refs |-> [ t EXCEPT ![refID] =
                        [ @ EXCEPT !.status = AchievementStatusDeleted,
                                   !.verified_at = Now(t[refID]),
                                   !.verified_by = NULL,
                                   !.rejection_note = Nil,
                                   !.updated_at = Now(t[refID]) ] ] ]

HardDeleteWhere(t, refID) ==
    /\ refID \in DOMAIN t
    /\ t[refID] # NoRow
    /\ t[refID].status = AchievementStatusDeleted

HardDelete(t, refID, dbErr) ==
    IF dbErr THEN [ err |-> ErrHardDeleteDb, refs |-> t ]
    ELSE IF ~HardDeleteWhere(t, refID)
    THEN [ err |-> ErrHardDeleteGuard, refs |-> t ]
    ELSE [ err |-> OK, refs |-> [ t EXCEPT ![refID] = NoRow ] ]

GetByID(t, id, dbErr) ==
    IF dbErr THEN [ err |-> ErrGetByIDDb, ref |-> NoRow ]
    ELSE IF ~(id \in DOMAIN t /\ t[id] # NoRow)
    THEN [ err |-> ErrRefNotFound, ref |-> NoRow ]
    ELSE [ err |-> OK, ref |-> t[id] ]

\* ---------------------------------------------------------- content store
\* InsertOne of a document with a fresh ObjectID.
MongoCreate(c, oid, studentID, dbErr) ==
    IF dbErr THEN [ err |-> ErrMongoCreateDb, id |-> 0, contents |-> c ]
    ELSE [ err |-> OK, id |-> oid,
           contents |-> [ c EXCEPT ![oid] = [ ID |-> oid, studentId |-> studentID ] ] ]

\* DeleteOne by _id; DeletedCount = 0 is an error.
MongoDelete(c, id, dbErr) ==
    IF dbErr THEN [ err |-> ErrMongoDeleteDb, contents |-> c ]
    ELSE IF ~(id \in DOMAIN c /\ c[id] # NoDoc)
    THEN [ err |-> ErrMongoNotFound, contents |-> c ]
    ELSE [ err |-> OK, contents |-> [ c EXCEPT ![id] = NoDoc ] ]

\* ------------------------------------------------------- request context
\* user_id and role_id come from the JWT (JWTAuthMiddleware).  student_uuid
\* is set only when StudentOnlyMiddleware runs in front of the handler
\* (mw = TRUE); the routes of SetupRoutes do not install it (mw = FALSE).
GetStudentByUserID(userID) ==
    IF \E s \in StudentIds : StudentUserOf[s] = userID
    THEN CHOOSE s \in StudentIds : StudentUserOf[s] = userID
    ELSE NULL

GetLecturerByUserID(userID) ==
    IF \E l \in LecturerIds : LecturerUserOf[l] = userID
    THEN CHOOSE l \in LecturerIds : LecturerUserOf[l] = userID
    ELSE NULL

\* Whether StudentOnlyMiddleware lets the request through, and the local
\* it sets.
StudentOnlyMiddleware(u) == GetStudentByUserID(u) # NULL
StudentUuidLocal(u, mw) == IF mw THEN GetStudentByUserID(u) ELSE NULL

resolveRoleName(u) == ToLower[RoleNameOf[u]]

\* ----------------------------------------------------------------- replies
Reply(op, code, msg) == [ op |-> op, code |-> code, msg |-> msg, data |-> << >> ]

\* The status code a handler gives a repository error: 404 when the text
\* holds "tidak ditemukan" (Submit: or "bukan milik"), else 400.
StatusOfErr(msg) == IF ContainsTidakDitemukan(msg) THEN 404 ELSE 400
StatusOfSubmitErr(msg) ==
    IF ContainsTidakDitemukan(msg) \/ ContainsBukanMilik(msg) THEN 404 ELSE 400

\* The ghost record of a transition of row r.
Moved(h, r, op, note) == [ h EXCEPT ![r] = [ @ EXCEPT !.op = op, !.note = note ] ]

Owner(r) == IF Present(r) THEN refs[r].student_id ELSE NULL

\* ---------------------------------------------------------------- Submit
SubmitAchievementService(u, mw, refID, dbErr) ==
    LET studentUUID == StudentUuidLocal(u, mw) IN
    /\ mw => StudentOnlyMiddleware(u)
    /\ IF studentUUID = NULL
       THEN /\ resp' = Reply("Submit", 403, "Hanya mahasiswa yang dapat mengakses")
            /\ UNCHANGED << refs, hist >>
       ELSE LET res == SubmitDraft(refs, refID, studentUUID, dbErr) IN
            /\ refs' = res.refs
            /\ resp' = IF res.err # OK
                       THEN Reply("Submit", StatusOfSubmitErr(res.err), res.err)
                       ELSE Reply("Submit", 200, "Status achievement berubah ke submitted")
            /\ hist' = IF res.err = OK
                       THEN [ Moved(hist, refID, "Submit", Nil) EXCEPT
                                ![refID].submitOK = @ + 1 ]
                       ELSE IF res.err = ErrSubmitGuard /\ Owner(refID) = studentUUID
                       THEN [ hist EXCEPT ![refID].submitLost = TRUE ]
                       ELSE hist
    /\ UNCHANGED << contents, nextRef, nextMongo, advisor, procs >>
    /\ UNCHANGED authVars

\* ------------------------------------------------------------ Soft delete
\* Variant: SoftDelete sending its statement without a student record of
\* the caller.
SoftDeleteAchievementServiceNoStudentCheck(u, mw, refID, dbErr) ==
    LET local == StudentUuidLocal(u, mw)
        studentUUID == IF local # NULL THEN local ELSE GetStudentByUserID(u)
        res == DeleteByStudent(refs, refID, studentUUID, dbErr)
    IN
    /\ mw => StudentOnlyMiddleware(u)
    /\ refs' = res.refs
    /\ resp' = IF res.err # OK
               THEN Reply("SoftDelete", StatusOfErr(res.err), res.err)
               ELSE Reply("SoftDelete", 200,
                          "Status achievement berubah ke deleted (soft delete)")
    /\ hist' = IF res.err = OK
               THEN Moved(hist, refID, "DeleteByStudent", Nil)
               ELSE hist
    /\ UNCHANGED << contents, nextRef, nextMongo, advisor, procs >>
    /\ UNCHANGED authVars

SoftDeleteAchievementService(u, mw, refID, dbErr) ==
    LET local == StudentUuidLocal(u, mw)
        studentUUID == IF local # NULL THEN local ELSE GetStudentByUserID(u)
    IN
    /\ mw => StudentOnlyMiddleware(u)
    /\ IF studentUUID = NULL
       THEN /\ resp' = Reply("SoftDelete", 403, "mahasiswa tidak memiliki student_id")
            /\ UNCHANGED << refs, hist >>
       ELSE LET res == DeleteByStudent(refs, refID, studentUUID, dbErr) IN
            /\ refs' = res.refs
            /\ resp' = IF res.err # OK
                       THEN Reply("SoftDelete", StatusOfErr(res.err), res.err)
                       ELSE Reply("SoftDelete", 200,
                                  "Status achievement berubah ke deleted (soft delete)")
            /\ hist' = IF res.err = OK
                       THEN Moved(hist, refID, "DeleteByStudent", Nil)
                       ELSE hist
    /\ UNCHANGED << contents, nextRef, nextMongo, advisor, procs >>
    /\ UNCHANGED authVars

\* ------------------------------------------------- administrator's delete
\* achievementReferenceRepository.Delete, called with the administrator's
\* user id; the reply carries the repository's error and no status code.
AdminDelete(u, refID, dbErr) ==
    /\ resolveRoleName(u) = "admin"
    /\ LET res == Delete(refs, refID, u, dbErr) IN
       /\ refs' = res.refs
       /\ resp' = Reply("Delete", 0, res.err)
       /\ hist' = IF res.err = OK THEN Moved(hist, refID, "Delete", Nil) ELSE hist
    /\ UNCHANGED << contents, nextRef, nextMongo, advisor, procs >>
    /\ UNCHANGED authVars

\* ------------------------------------------------------ student directory
\* UPDATE students SET advisor_id = ... WHERE id = ...; uuid.Nil clears it.
UpdateStudent(id, advisorID) ==
    /\ advisor' = [ advisor EXCEPT ![id] = IF advisorID = UuidNil THEN NULL ELSE advisorID ]
    /\ UNCHANGED << refs, contents, nextRef, nextMongo, procs, resp, hist >>
    /\ UNCHANGED authVars

\* ---------------------------------------------------------------- Create
\* The text fields of a CreateAchievementRequest.
Other == << "o", "t", "h", "e", "r" >>
Competition == << "c", "o", "m", "p", "e", "t", "i", "t", "i", "o", "n" >>
Academic == << "a", "c", "a", "d", "e", "m", "i", "c" >>
Organization == << "o", "r", "g", "a", "n", "i", "z", "a", "t", "i", "o", "n" >>
Publication == << "p", "u", "b", "l", "i", "c", "a", "t", "i", "o", "n" >>
Certification ==
    << "c", "e", "r", "t", "i", "f", "i", "c", "a", "t", "i", "o", "n" >>
\* validate:"required,oneof=academic competition organization publication
\* certification other" on CreateAchievementRequest.AchievementType; no
\* handler runs a validator over the request.
AchievementTypeOneOf ==
    { Academic, Competition, Organization, Publication, Certification, Other }
CreateReq(typ, title, desc, details) ==
    [ achievement_type |-> typ, title |-> title, description |-> desc,
      details |-> details ]
\* details: no map, a map without rank, rank as float64 / int / string.
CreateInputs ==
    { CreateReq(Other, << "t" >>, << "d" >>, "nil"),
      CreateReq(<< " ", "O", "t", "h", "e", "r" >>, << "t" >>, << "d" >>, "noRank"),
      CreateReq(Competition, << "t" >>, << "d" >>, "rankFloat64"),
      CreateReq(Competition, << "t" >>, << "d" >>, "rankInt"),
      CreateReq(Competition, << "t" >>, << "d" >>, "rankString"),
      CreateReq(<< "x" >>, << "t" >>, << "d" >>, "nil"),
      CreateReq(<< " " >>, << "t" >>, << "d" >>, "nil"),
      CreateReq(<< >>, << "t" >>, << "d" >>, "nil"),
      CreateReq(Other, << " " >>, << "d" >>, "nil"),
      CreateReq(Other, << "t" >>, << >>, "nil") }

LowerChar(c) == IF c = "O" THEN "o" ELSE c
LowerSeq(s) == [ i \in 1..Len(s) |-> LowerChar(s[i]) ]

\* normalizeDetails: TRUE when it returns an error.
normalizeDetailsFails(achType, details) ==
    /\ details # "nil"
    /\ LowerSeq(TrimSpace(achType)) = Competition
    /\ details = "rankString"

CreateValid(typ, title, desc) ==
    /\ LowerSeq(TrimSpace(typ)) # << >>
    /\ TrimSpace(title) # << >>
    /\ TrimSpace(desc) # << >>

\* From the start of the handler to achievementMongoRepo.Create.
CreateAchievementService(p, u, mw, req, max, dbErr) ==
    LET local == StudentUuidLocal(u, mw)
        studentUUID == IF local # NULL THEN local ELSE GetStudentByUserID(u)
    IN
    /\ procs[p] = Idle
    /\ mw => StudentOnlyMiddleware(u)
    /\ nextMongo <= max
    /\ IF studentUUID = NULL
       THEN /\ resp' = Reply("Create", 403, "mahasiswa tidak memiliki student_id")
            /\ UNCHANGED << contents, nextMongo, procs >>
       ELSE IF ~CreateValid(req.achievement_type, req.title, req.description)
       THEN /\ resp' = Reply("Create", 400,
                             "achievement_type, title, dan description wajib diisi")
            /\ UNCHANGED << contents, nextMongo, procs >>
       ELSE IF normalizeDetailsFails(req.achievement_type, req.details)
       THEN /\ resp' = Reply("Create", 400, "rank harus numerik (int)")
            /\ UNCHANGED << contents, nextMongo, procs >>
       ELSE LET res == MongoCreate(contents, nextMongo, studentUUID, dbErr) IN
            IF res.err # OK
            THEN /\ resp' = Reply("Create", 500, "Gagal menyimpan achievement")
                 /\ UNCHANGED << contents, nextMongo, procs >>
            ELSE /\ contents' = res.contents
                 /\ nextMongo' = nextMongo + 1
                 /\ procs' = [ procs EXCEPT ![p] =
                                 [ op |-> "Create", pc |-> "CreateDraft",
                                   studentUUID |-> studentUUID, mongoID |-> res.id ] ]
                 /\ UNCHANGED resp
    /\ UNCHANGED << refs, nextRef, advisor, hist >>
    /\ UNCHANGED authVars

\* Variant: the handler deleting the content record it has written when
\* the reference insertion fails.
CreateAchievementDraftCompensates(p, dbErr) ==
    /\ procs[p].op = "Create"
    /\ LET res == CreateDraft(refs, nextRef, procs[p].studentUUID, procs[p].mongoID, dbErr) IN
       IF res.err # OK
       THEN /\ resp' = Reply("Create", 500, "Gagal membuat reference")
            /\ contents' = [ contents EXCEPT ![procs[p].mongoID] = NoDoc ]
            /\ UNCHANGED << refs, nextRef, hist >>
       ELSE /\ refs' = res.refs
            /\ nextRef' = nextRef + 1
            /\ hist' = Moved(hist, res.id, "Create", Nil)
            /\ resp' = Reply("Create", 201, "Achievement berhasil dibuat")
            /\ UNCHANGED contents
    /\ procs' = [ procs EXCEPT ![p] = Idle ]
    /\ UNCHANGED << nextMongo, advisor >>
    /\ UNCHANGED authVars

\* achievementRefRepo.CreateDraft and the reply.
CreateAchievementDraft(p, dbErr) ==
    /\ procs[p].op = "Create"
    /\ LET res == CreateDraft(refs, nextRef, procs[p].studentUUID, procs[p].mongoID, dbErr) IN
       IF res.err # OK
       THEN /\ resp' = Reply("Create", 500, "Gagal membuat reference")
            /\ UNCHANGED << refs, nextRef, hist >>
       ELSE /\ refs' = res.refs
            /\ nextRef' = nextRef + 1
            /\ hist' = Moved(hist, res.id, "Create", Nil)
            /\ resp' = Reply("Create", 201, "Achievement berhasil dibuat")
    /\ procs' = [ procs EXCEPT ![p] = Idle ]
    /\ UNCHANGED << contents, nextMongo, advisor >>
    /\ UNCHANGED authVars

\* ---------------------------------------------------------------- Review
\* Variant: the note check without strings.TrimSpace.
NoteMissingNoTrim(status, note) ==
    /\ status = AchievementStatusRejected
    /\ (note = Nil \/ Deref(note) = << >>)

\* "rejection_note wajib diisi jika status rejected"
NoteMissing(status, note) ==
    /\ status = AchievementStatusRejected
    /\ (note = Nil \/ TrimSpace(Deref(note)) = << >>)

StatusInvalid(status) ==
    status # AchievementStatusVerified /\ status # AchievementStatusRejected

\* The reply of a review request refused by validation ("" when it passes).
ReviewValidation(status, note) ==
    IF NoteMissing(status, note)
    THEN "rejection_note wajib diisi jika status rejected"
    ELSE IF StatusInvalid(status) THEN "Status harus verified/rejected"
    ELSE ""

ReviewReply(err) ==
    IF err # OK THEN Reply("Review", StatusOfErr(err), err)
    ELSE Reply("Review", 200, "Status achievement berhasil diupdate")

\* case "admin"
ReviewAchievementServiceAdmin(u, refID, status, note, dbErr) ==
    LET st == LowerTrim(status) IN
    /\ resolveRoleName(u) = "admin"
    /\ IF ReviewValidation(st, note) # ""
       THEN /\ resp' = Reply("Review", 400, ReviewValidation(st, note))
            /\ UNCHANGED << refs, hist >>
       ELSE LET res == Review(refs, refID, st, u, note, dbErr) IN
            /\ refs' = res.refs
            /\ resp' = ReviewReply(res.err)
            /\ hist' = IF res.err = OK THEN Moved(hist, refID, "Review", note) ELSE hist
    /\ UNCHANGED << contents, nextRef, nextMongo, advisor, procs >>
    /\ UNCHANGED authVars

\* Variant: the default branch sending the request to the reference store
\* as the admin branch does.
ReviewAchievementServiceOtherAsAdmin(u, refID, status, note) ==
    LET st == LowerTrim(status) IN
    /\ resolveRoleName(u) \notin { "admin", "dosen wali" }
    /\ IF ReviewValidation(st, note) # ""
       THEN /\ resp' = Reply("Review", 400, ReviewValidation(st, note))
            /\ UNCHANGED << refs, hist >>
       ELSE LET res == Review(refs, refID, st, u, note, FALSE) IN
            /\ refs' = res.refs
            /\ resp' = ReviewReply(res.err)
            /\ hist' = IF res.err = OK THEN Moved(hist, refID, "Review", note) ELSE hist
    /\ UNCHANGED << contents, nextRef, nextMongo, advisor, procs >>
    /\ UNCHANGED authVars

\* default: every role but admin and dosen wali
ReviewAchievementServiceOther(u, refID, status, note) ==
    /\ resolveRoleName(u) \notin { "admin", "dosen wali" }
    /\ resp' = Reply("Review", 403, "Role tidak diperbolehkan untuk aksi ini")
    /\ UNCHANGED << refs, contents, nextRef, nextMongo, advisor, procs, hist >>
    /\ UNCHANGED authVars

\* case "dosen wali", up to GetLecturerByUserID
ReviewAchievementServiceAdvisor(p, u, refID, status, note, dbErr) ==
    LET st == LowerTrim(status)
        got == GetByID(refs, refID, dbErr)
        lect == GetLecturerByUserID(u)
    IN
    /\ procs[p] = Idle
    /\ resolveRoleName(u) = "dosen wali"
    /\ IF ReviewValidation(st, note) # ""
       THEN /\ resp' = Reply("Review", 400, ReviewValidation(st, note))
            /\ UNCHANGED procs
       ELSE IF got.err # OK
       THEN /\ resp' = Reply("Review", 404, got.err)
            /\ UNCHANGED procs
       ELSE IF got.ref.status # AchievementStatusSubmitted
       THEN /\ resp' = Reply("Review", 400, "Hanya boleh memproses status submitted")
            /\ UNCHANGED procs
       ELSE IF lect = NULL
       THEN /\ resp' = Reply("Review", 403, "Dosen wali tidak ditemukan")
            /\ UNCHANGED procs
       ELSE /\ procs' = [ procs EXCEPT ![p] =
                            [ op |-> "Review", pc |-> "GetStudentByID", user |-> u,
                              refID |-> refID, status |-> st, note |-> note,
                              studentID |-> got.ref.student_id, lect |-> lect,
                              advisorID |-> NULL ] ]
            /\ UNCHANGED resp
    /\ UNCHANGED << refs, contents, nextRef, nextMongo, advisor, hist >>
    /\ UNCHANGED authVars

\* Variant: the advisor check without the comparison of the two ids.
NotAdvisorOfNoCompare(dbErr, advisorID, lectID) == dbErr \/ advisorID = NULL

\* err != nil || st == nil || st.AdvisorID == nil || st.AdvisorID != lect.ID
NotAdvisorOf(dbErr, advisorID, lectID) ==
    dbErr \/ advisorID = NULL \/ advisorID # lectID

\* GetStudentByID and the advisor-of check
ReviewAdvisorCheck(p, dbErr) ==
    /\ procs[p].op = "Review"
    /\ procs[p].pc = "GetStudentByID"
    /\ LET advisorID == IF dbErr THEN NULL ELSE advisor[procs[p].studentID] IN
       IF NotAdvisorOf(dbErr, advisorID, procs[p].lect)
       THEN /\ resp' = Reply("Review", 403, "Tidak berhak memproses mahasiswa ini")
            /\ procs' = [ procs EXCEPT ![p] = Idle ]
       ELSE /\ procs' = [ procs EXCEPT ![p] =
                            [ @ EXCEPT !.pc = "Review", !.advisorID = advisorID ] ]
            /\ UNCHANGED resp
    /\ UNCHANGED << refs, contents, nextRef, nextMongo, advisor, hist >>
    /\ UNCHANGED authVars

\* achievementRefRepo.Review and the reply
ReviewAdvisorWrite(p, dbErr) ==
    /\ procs[p].op = "Review"
    /\ procs[p].pc = "Review"
    /\ LET res == Review(refs, procs[p].refID, procs[p].status, procs[p].user,
                         procs[p].note, dbErr) IN
       /\ refs' = res.refs
       /\ resp' = ReviewReply(res.err)
       /\ hist' = IF res.err = OK
                  THEN Moved(hist, procs[p].refID, "Review", procs[p].note)
                  ELSE hist
    /\ procs' = [ procs EXCEPT ![p] = Idle ]
    /\ UNCHANGED << contents, nextRef, nextMongo, advisor >>
    /\ UNCHANGED authVars

\* ------------------------------------------------------------ Hard delete
\* Variant: the handler without its check of the status it has read.
HardDeleteAchievementServiceAnyStatus(p, refID, dbErr) ==
    LET got == GetByID(refs, refID, dbErr) IN
    /\ procs[p] = Idle
    /\ IF got.err # OK
       THEN /\ resp' = Reply("HardDelete", 404, "achievement reference tidak ditemukan")
            /\ UNCHANGED procs
       ELSE /\ procs' = [ procs EXCEPT ![p] =
                            [ op |-> "HardDelete", pc |-> "MongoDelete", refID |-> refID,
                              mongoID |-> got.ref.mongo_achievement_id ] ]
            /\ UNCHANGED resp
    /\ UNCHANGED << refs, contents, nextRef, nextMongo, advisor, hist >>
    /\ UNCHANGED authVars

\* GetByID and the status check
HardDeleteAchievementService(p, refID, dbErr) ==
    LET got == GetByID(refs, refID, dbErr) IN
    /\ procs[p] = Idle
    /\ IF got.err # OK
       THEN /\ resp' = Reply("HardDelete", 404, "achievement reference tidak ditemukan")
            /\ UNCHANGED procs
       ELSE IF got.ref.status # AchievementStatusDeleted
       THEN /\ resp' = Reply("HardDelete", 400,
                             "Hard delete hanya boleh untuk status deleted")
            /\ UNCHANGED procs
       ELSE /\ procs' = [ procs EXCEPT ![p] =
                            [ op |-> "HardDelete", pc |-> "MongoDelete", refID |-> refID,
                              mongoID |-> got.ref.mongo_achievement_id ] ]
            /\ UNCHANGED resp
    /\ UNCHANGED << refs, contents, nextRef, nextMongo, advisor, hist >>
    /\ UNCHANGED authVars

\* Variant: the handler going on to the reference store whatever the
\* content store has answered.
HardDeleteContentIgnoresErr(p, dbErr) ==
    /\ procs[p].op = "HardDelete"
    /\ procs[p].pc = "MongoDelete"
    /\ contents' = MongoDelete(contents, procs[p].mongoID, dbErr).contents
    /\ procs' = [ procs EXCEPT ![p] = [ @ EXCEPT !.pc = "HardDelete" ] ]
    /\ UNCHANGED << refs, nextRef, nextMongo, advisor, resp, hist >>
    /\ UNCHANGED authVars

\* achievementMongoRepo.Delete
HardDeleteContent(p, dbErr) ==
    /\ procs[p].op = "HardDelete"
    /\ procs[p].pc = "MongoDelete"
    /\ LET res == MongoDelete(contents, procs[p].mongoID, dbErr) IN
       /\ contents' = res.contents
       /\ IF res.err # OK
          THEN /\ resp' = Reply("HardDelete", StatusOfErr(res.err), res.err)
               /\ procs' = [ procs EXCEPT ![p] = Idle ]
          ELSE /\ procs' = [ procs EXCEPT ![p] = [ @ EXCEPT !.pc = "HardDelete" ] ]
               /\ UNCHANGED resp
    /\ UNCHANGED << refs, nextRef, nextMongo, advisor, hist >>
    /\ UNCHANGED authVars

\* achievementRefRepo.HardDelete and the reply
HardDeleteReference(p, dbErr) ==
    /\ procs[p].op = "HardDelete"
    /\ procs[p].pc = "HardDelete"
    /\ LET res == HardDelete(refs, procs[p].refID, dbErr) IN
       /\ refs' = res.refs
       /\ resp' = IF res.err # OK
                  THEN Reply("HardDelete", StatusOfErr(res.err), res.err)
                  ELSE Reply("HardDelete", 200, "Achievement dihapus permanen")
       /\ hist' = IF res.err = OK
                  THEN Moved(hist, procs[p].refID, "HardDelete", Nil)
                  ELSE hist
    /\ procs' = [ procs EXCEPT ![p] = Idle ]
    /\ UNCHANGED << contents, nextRef, nextMongo, advisor >>
    /\ UNCHANGED authVars

\* ------------------------------------------------------------------ lists
\* The statuses and filters of a role: [ err, statuses, studentFilter,
\* advisorFilter ], NULL being a nil filter.
Scope(err, statuses, studentFilter, advisorFilter) ==
    [ err |-> err, statuses |-> statuses, studentFilter |-> studentFilter,
      advisorFilter |-> advisorFilter ]

\* Variant: allowedStatusesByRole giving an advisor role without a
\* lecturer record the submitted rows of every student.
allowedStatusesByRoleNoLecturerCheck(u, mw) ==
    LET roleName == resolveRoleName(u)
        local == StudentUuidLocal(u, mw)
        studentUUID == IF local # NULL THEN local ELSE GetStudentByUserID(u)
    IN
    CASE roleName = "admin" ->
           Scope(OK, { AchievementStatusDraft, AchievementStatusSubmitted,
                       AchievementStatusVerified, AchievementStatusRejected,
                       AchievementStatusDeleted }, NULL, NULL)
      [] roleName = "mahasiswa" ->
           IF studentUUID = NULL
           THEN Scope("mahasiswa tidak memiliki student_id", {}, NULL, NULL)
           ELSE Scope(OK, { AchievementStatusDraft, AchievementStatusSubmitted,
                            AchievementStatusVerified, AchievementStatusRejected },
                      studentUUID, NULL)
      [] roleName = "dosen wali" ->
           Scope(OK, { AchievementStatusSubmitted }, NULL, GetLecturerByUserID(u))
      [] roleName = "staff" ->
           Scope(OK, { AchievementStatusVerified, AchievementStatusRejected }, NULL, NULL)
      [] OTHER -> Scope("role tidak diperbolehkan", {}, NULL, NULL)

allowedStatusesByRole(u, mw) ==
    LET roleName == resolveRoleName(u)
        local == StudentUuidLocal(u, mw)
        studentUUID == IF local # NULL THEN local ELSE GetStudentByUserID(u)
        lect == GetLecturerByUserID(u)
    IN
    CASE roleName = "admin" ->
           Scope(OK, { AchievementStatusDraft, AchievementStatusSubmitted,
                       AchievementStatusVerified, AchievementStatusRejected,
                       AchievementStatusDeleted }, NULL, NULL)
      [] roleName = "mahasiswa" ->
           IF studentUUID = NULL
           THEN Scope("mahasiswa tidak memiliki student_id", {}, NULL, NULL)
           ELSE Scope(OK, { AchievementStatusDraft, AchievementStatusSubmitted,
                            AchievementStatusVerified, AchievementStatusRejected },
                      studentUUID, NULL)
      [] roleName = "dosen wali" ->
           IF lect = NULL
           THEN Scope("dosen wali tidak ditemukan", {}, NULL, NULL)
           ELSE Scope(OK, { AchievementStatusSubmitted }, NULL, lect)
      [] roleName = "staff" ->
           Scope(OK, { AchievementStatusVerified, AchievementStatusRejected }, NULL, NULL)
      [] OTHER -> Scope("role tidak diperbolehkan", {}, NULL, NULL)

\* Variant: the WHERE clause of ListByStatuses without the student filter.
ListWhereAnyStudent(t, adv, statuses, studentID, advisorID) ==
    { r \in DOMAIN t :
        /\ t[r] # NoRow
        /\ t[r].status \in statuses
        /\ advisorID # NULL => adv[t[r].student_id] = advisorID }

\* Variant: ListByStatuses without the JOIN on students and its advisor_id
\* conjunct.
ListWhereAnyAdvisor(t, adv, statuses, studentID, advisorID) ==
    { r \in DOMAIN t :
        /\ t[r] # NoRow
        /\ t[r].status \in statuses
        /\ studentID # NULL => t[r].student_id = studentID }

\* The ids of the rows the WHERE clause (and JOIN) of ListByStatuses keeps.
ListWhere(t, adv, statuses, studentID, advisorID) ==
    { r \in DOMAIN t :
        /\ t[r] # NoRow
        /\ t[r].status \in statuses
        /\ studentID # NULL => t[r].student_id = studentID
        /\ advisorID # NULL => adv[t[r].student_id] = advisorID }

\* ORDER BY created_at DESC over the ids of ids.
RECURSIVE OrderByCreatedAtDesc(_, _)
OrderByCreatedAtDesc(t, ids) ==
    IF ids = {} THEN << >>
    ELSE LET first == CHOOSE r \in ids :
                          \A q \in ids : t[q].created_at <= t[r].created_at
         IN << first >> \o OrderByCreatedAtDesc(t, ids \ { first })

PageOf(page) == IF page < 1 THEN 1 ELSE page
LimitOf(limit) == IF limit < 1 THEN 10 ELSE limit

\* LIMIT limit OFFSET offset
LimitOffset(seq, limit, offset) ==
    SubSeq(seq, offset + 1, IF offset + limit < Len(seq) THEN offset + limit ELSE Len(seq))

\* SELECT COUNT(*) of ListByStatuses.
ListCount(t, adv, sc) ==
    Cardinality(ListWhere(t, adv, sc.statuses, sc.studentFilter, sc.advisorFilter))

\* The SELECT of ListByStatuses: the rows of the page, each with its id.
ListRows(t, adv, sc, page, limit) ==
    LET ids == OrderByCreatedAtDesc(
                   t, ListWhere(t, adv, sc.statuses, sc.studentFilter, sc.advisorFilter))
        cut == LimitOffset(ids, LimitOf(limit), (PageOf(page) - 1) * LimitOf(limit))
    IN [ i \in 1..Len(cut) |-> [ id |-> cut[i], row |-> t[cut[i]] ] ]

\* achievementMongoRepository.GetByIDs: no query for an empty list of ids.
MongoGetByIDs(c, ids, dbErr) ==
    IF ids = {} THEN [ err |-> OK, found |-> {} ]
    ELSE IF dbErr THEN [ err |-> ErrMongoGetDb, found |-> {} ]
    ELSE [ err |-> OK,
           found |-> { c[m] : m \in { i \in ids : i \in DOMAIN c /\ c[i] # NoDoc } } ]

\* Variant: the join keeping only the rows whose document was found.
CombineFoundOnly(rows, found) ==
    LET achMap(k) == { a \in found : a.ID = k }
        kept == SelectSeq(rows, LAMBDA r : achMap(r.row.mongo_achievement_id) # {})
    IN
    [ i \in 1..Len(kept) |->
        [ Reference |-> kept[i],
          Achievement |-> CHOOSE a \in achMap(kept[i].row.mongo_achievement_id) : TRUE ] ]

\* The in-memory join of GetAchievementsService: achMap holds the documents
\* found under their ids; a row without an entry keeps the zero document.
Combine(rows, found) ==
    LET achMap(k) == { a \in found : a.ID = k } IN
    [ i \in 1..Len(rows) |->
        [ Reference |-> rows[i],
          Achievement |-> IF achMap(rows[i].row.mongo_achievement_id) # {}
                          THEN CHOOSE a \in achMap(rows[i].row.mongo_achievement_id) : TRUE
                          ELSE NoDoc ] ]

ListReply(u, code, msg, data, total, page, limit) ==
    [ op |-> "List", code |-> code, msg |-> msg, data |-> data, total |-> total,
      page |-> page, limit |-> limit, to |-> u ]

\* resolveRoleName, allowedStatusesByRole and the COUNT of ListByStatuses.
ListStart(p, u, mw, page, limit, forAchievements, dbErr) ==
    LET sc == allowedStatusesByRole(u, mw) IN
    /\ procs[p] = Idle
    /\ mw => StudentOnlyMiddleware(u)
    /\ IF sc.err # OK
       THEN /\ resp' = ListReply(u, 403, sc.err, << >>, 0, page, limit)
            /\ UNCHANGED procs
       ELSE IF dbErr
       THEN /\ resp' = ListReply(u, 500, "Gagal mengambil achievement references",
                                 << >>, 0, page, limit)
            /\ UNCHANGED procs
       ELSE /\ procs' = [ procs EXCEPT ![p] =
                            [ op |-> "List", pc |-> "Select", user |-> u, scope |-> sc,
                              page |-> page, limit |-> limit,
                              forAchievements |-> forAchievements,
                              total |-> ListCount(refs, advisor, sc), rows |-> << >> ] ]
            /\ UNCHANGED resp
    /\ UNCHANGED << refs, contents, nextRef, nextMongo, advisor, hist >>
    /\ UNCHANGED authVars

GetAchievementsService(p, u, mw, page, limit, dbErr) ==
    ListStart(p, u, mw, page, limit, TRUE, dbErr)

GetAchievementReferencesService(p, u, mw, page, limit, dbErr) ==
    ListStart(p, u, mw, page, limit, FALSE, dbErr)

\* The SELECT of ListByStatuses; GetAchievementReferencesService replies.
ListSelect(p, dbErr) ==
    LET q == procs[p]
        rows == ListRows(refs, advisor, q.scope, q.page, q.limit)
    IN
    /\ q.op = "List"
    /\ q.pc = "Select"
    /\ IF dbErr
       THEN /\ resp' = ListReply(q.user, 500, "Gagal mengambil achievement references",
                                 << >>, 0, q.page, q.limit)
            /\ procs' = [ procs EXCEPT ![p] = Idle ]
       ELSE IF q.forAchievements
       THEN /\ procs' = [ procs EXCEPT ![p] = [ @ EXCEPT !.pc = "GetByIDs", !.rows = rows ] ]
            /\ UNCHANGED resp
       ELSE /\ resp' = ListReply(q.user, 200,
                                 "Data achievement references berhasil diambil",
                                 rows, q.total, q.page, q.limit)
            /\ procs' = [ procs EXCEPT ![p] = Idle ]
    /\ UNCHANGED << refs, contents, nextRef, nextMongo, advisor, hist >>
    /\ UNCHANGED authVars

\* achievementMongoRepo.GetByIDs, the join and the reply.
ListJoin(p, dbErr) ==
    LET q == procs[p]
        ids == { q.rows[i].row.mongo_achievement_id : i \in 1..Len(q.rows) }
        got == MongoGetByIDs(contents, ids, dbErr)
    IN
    /\ q.op = "List"
    /\ q.pc = "GetByIDs"
    /\ resp' = IF got.err # OK
               THEN ListReply(q.user, 500, "Gagal mengambil data achievements",
                              << >>, 0, q.page, q.limit)
               ELSE ListReply(q.user, 200, "Data achievements berhasil diambil",
                              Combine(q.rows, got.found), q.total,
                              q.page, q.limit)
    /\ procs' = [ procs EXCEPT ![p] = Idle ]
    /\ UNCHANGED << refs, contents, nextRef, nextMongo, advisor, hist >>
    /\ UNCHANGED authVars

\* ------------------------------------------------------------------- JWT
\* ExpiresAt = time.Now().Add(24 * time.Hour), in steps of the clock.
TokenLifetime == 2

\* The token GenerateJWTPostgres signs for user u at time now.
GenerateJWTPostgres(u, now) ==
    [ user_id |-> u, iat |-> now, exp |-> now + TokenLifetime, signed |-> TRUE ]

\* A token that does not carry the signature of the server's secret.
Forged == [ user_id |-> "uAdmin", iat |-> 0, exp |-> MaxClock, signed |-> FALSE ]

\* jwt.ParseWithClaims with the HMAC key function: the signature verifies
\* and the token has not expired.
ParseWithClaims(tok, now) == tok.signed /\ now <= tok.exp

AuthReply(op, code, msg, tok) ==
    [ op |-> op, code |-> code, msg |-> msg, data |-> << >>, token |-> tok ]

\* Login: the password check of userRepo.Login, UpdateUser(is_active =
\* true), GenerateJWTPostgres.
Login(u, passwordOK, dbErr) ==
    /\ IF ~passwordOK
       THEN /\ resp' = AuthReply("Login", 401, "email atau password salah", Forged)
            /\ UNCHANGED << is_active, issued, loggedOut >>
       ELSE IF dbErr
       THEN /\ resp' = AuthReply("Login", 500, "Gagal update user status", Forged)
            /\ UNCHANGED << is_active, issued, loggedOut >>
       ELSE /\ is_active' = [ is_active EXCEPT ![u] = TRUE ]
            /\ issued' = issued \cup { GenerateJWTPostgres(u, clock) }
            /\ loggedOut' = loggedOut \ { GenerateJWTPostgres(u, clock) }
            /\ resp' = AuthReply("Login", 200, "Login berhasil",
                                 GenerateJWTPostgres(u, clock))
    /\ UNCHANGED << refs, contents, nextRef, nextMongo, advisor, procs, hist, clock >>

\* Logout: the token of the request body is parsed and its user is
\* deactivated, UpdateUser(is_active = false).
Logout(tok, dbErr) ==
    /\ IF ~ParseWithClaims(tok, clock)
       THEN /\ resp' = AuthReply("Logout", 401, "Token tidak valid atau expired", tok)
            /\ UNCHANGED << is_active, loggedOut >>
       ELSE IF dbErr
       THEN /\ resp' = AuthReply("Logout", 500,
                                 "Gagal logout, error saat update user status", tok)
            /\ UNCHANGED << is_active, loggedOut >>
       ELSE /\ is_active' = [ is_active EXCEPT ![tok.user_id] = FALSE ]
            /\ loggedOut' = loggedOut \cup { t \in issued : t.user_id = tok.user_id }
            /\ resp' = AuthReply("Logout", 200,
                                 "Logout berhasil, token sudah tidak aktif", tok)
    /\ UNCHANGED << refs, contents, nextRef, nextMongo, advisor, procs, hist,
                    issued, clock >>

\* Refresh: a new token for the user of a token that parses; is_active is
\* not read.
Refresh(tok) ==
    /\ IF ~ParseWithClaims(tok, clock)
       THEN /\ resp' = AuthReply("Refresh", 401, "Token tidak valid atau expired", tok)
            /\ UNCHANGED << issued, loggedOut >>
       ELSE /\ issued' = issued \cup { GenerateJWTPostgres(tok.user_id, clock) }
            /\ loggedOut' = loggedOut \ { GenerateJWTPostgres(tok.user_id, clock) }
            /\ resp' = AuthReply("Refresh", 200, "Token berhasil direfresh",
                                 GenerateJWTPostgres(tok.user_id, clock))
    /\ UNCHANGED << refs, contents, nextRef, nextMongo, advisor, procs, hist,
                    is_active, clock >>

\* JWTAuthMiddleware in front of a protected route: 200 stands for c.Next().
JWTAuthMiddleware(tok) ==
    /\ resp' = IF ~ParseWithClaims(tok, clock)
               THEN AuthReply("Protected", 401, "Invalid atau expired token", tok)
               ELSE IF ~is_active[tok.user_id]
               THEN AuthReply("Protected", 401, "Token di matikan, akun tidak aktif", tok)
               ELSE AuthReply("Protected", 200, "", tok)
    /\ UNCHANGED << refs, contents, nextRef, nextMongo, advisor, procs, hist >>
    /\ UNCHANGED authVars

\* time.Now() advances.
Tick ==
    /\ clock < MaxClock
    /\ clock' = clock + 1
    /\ UNCHANGED << refs, contents, nextRef, nextMongo, advisor, procs, resp, hist,
                    is_active, issued, loggedOut >>

\* ------------------------------------------------------------------- spec
\* The slot a handler that starts takes: the lowest free one.
Free(p) == procs[p] = Idle /\ \A q \in Procs : q < p => procs[q] # Idle

Admins == { u \in Users : resolveRoleName(u) = "admin" }
Advisors == { u \in Users : resolveRoleName(u) = "dosen wali" }
\* The advisors an UpdateStudentRequest names.
AdvisorInputs == { "L1", UuidNil }
\* The bodies of the review requests: each status text, every note with
\* the status rejected.
ReviewReq(status, note) == [ status |-> status, rejection_note |-> note ]
ReviewInputs ==
    { ReviewReq("rejected", n) : n \in Notes }
    \cup { ReviewReq("verified", Nil), ReviewReq("verified", Ptr(<< "x" >>)),
           ReviewReq(" Verified", Nil), ReviewReq("draft", Ptr(<< "x" >>)) }
\* The ids a request names: the ids Create has returned (the id a first
\* Create will return, before that).
RequestIds == 1..(IF nextRef = 1 THEN 1 ELSE nextRef - 1)
DbErrs == BOOLEAN

Init ==
    /\ refs = [ r \in RefIds |-> NoRow ]
    /\ contents = [ m \in MongoIds |-> NoDoc ]
    /\ nextRef = 1
    /\ nextMongo = 1
    /\ advisor = [ s \in StudentIds |-> NULL ]
    /\ procs = [ p \in Slots |-> Idle ]
    /\ resp = Reply("none", 0, "")
    /\ hist = [ r \in RefIds |-> NoHist ]
    /\ is_active = [ u \in Accounts |-> TRUE ]
    /\ issued = {}
    /\ clock = 0
    /\ loggedOut = {}

Submit ==
    \E u \in Users, mw \in BOOLEAN, r \in RequestIds, dbErr \in DbErrs :
        SubmitAchievementService(u, mw, r, dbErr)

SoftDelete ==
    \E u \in Users, mw \in BOOLEAN, r \in RequestIds, dbErr \in DbErrs :
        SoftDeleteAchievementService(u, mw, r, dbErr)

DeleteByAdmin ==
    \E u \in Admins, r \in RequestIds, dbErr \in DbErrs : AdminDelete(u, r, dbErr)

ChangeAdvisor == \E s \in StudentIds, a \in AdvisorInputs : UpdateStudent(s, a)

CreateStart(max) ==
    \E p \in Procs, u \in Users, mw \in BOOLEAN, req \in CreateInputs, dbErr \in DbErrs :
        Free(p) /\ CreateAchievementService(p, u, mw, req, max, dbErr)

CreateReference == \E p \in Procs, dbErr \in DbErrs : CreateAchievementDraft(p, dbErr)

ReviewByAdmin ==
    \E u \in Admins, r \in RequestIds, req \in ReviewInputs, dbErr \in DbErrs :
        ReviewAchievementServiceAdmin(u, r, req.status, req.rejection_note, dbErr)

ReviewByOther ==
    \E u \in Accounts \ (Admins \cup Advisors), r \in RequestIds, req \in ReviewInputs :
        ReviewAchievementServiceOther(u, r, req.status, req.rejection_note)

ReviewByAdvisor ==
    \E p \in Procs, u \in Advisors, r \in RequestIds, req \in ReviewInputs,
       dbErr \in DbErrs :
        Free(p) /\ ReviewAchievementServiceAdvisor(p, u, r, req.status,
                                                   req.rejection_note, dbErr)

ReviewCheck == \E p \in Procs, dbErr \in DbErrs : ReviewAdvisorCheck(p, dbErr)

ReviewWrite == \E p \in Procs, dbErr \in DbErrs : ReviewAdvisorWrite(p, dbErr)

HardDeleteStart ==
    \E p \in Procs, r \in RequestIds, dbErr \in DbErrs :
        Free(p) /\ HardDeleteAchievementService(p, r, dbErr)

HardDeleteMongo == \E p \in Procs, dbErr \in DbErrs : HardDeleteContent(p, dbErr)

HardDeleteRef == \E p \in Procs, dbErr \in DbErrs : HardDeleteReference(p, dbErr)

\* The lifecycle of one row under every handler that writes.
Next ==
    \/ CreateStart(MaxCreatesOne)
    \/ CreateReference
    \/ Submit
    \/ SoftDelete
    \/ DeleteByAdmin
    \/ ReviewByAdmin
    \/ ReviewByOther
    \/ ReviewByAdvisor
    \/ ReviewCheck
    \/ ReviewWrite
    \/ HardDeleteStart
    \/ HardDeleteMongo
    \/ HardDeleteRef
    \/ ChangeAdvisor

Spec == Init /\ [][Next]_vars

\* ---- Two rows under Create, Submit, SoftDelete and the lists ----
Students == { u \in Users : resolveRoleName(u) = "mahasiswa" }
\* page and limit of the list requests: the defaults, and pages of one row.
PageInputs == { << 0, 0 >>, << 1, 1 >>, << 2, 1 >> }
\* The users that list in SpecList.
Listers == Students

CreateByStudent ==
    \E p \in Procs, u \in Students, dbErr \in DbErrs :
        Free(p) /\ CreateAchievementService(p, u, FALSE, CreateReq(Other, << "t" >>,
                                            << "d" >>, "nil"), MaxCreates, dbErr)

SubmitByStudent ==
    \E u \in Students, r \in RequestIds : SubmitAchievementService(u, TRUE, r, FALSE)

SoftDeleteByStudent ==
    \E u \in Students, r \in RequestIds : SoftDeleteAchievementService(u, FALSE, r, FALSE)

ListAchievements ==
    \E p \in Procs, u \in Listers, mw \in BOOLEAN, pl \in PageInputs :
        Free(p) /\ GetAchievementsService(p, u, mw, pl[1], pl[2], FALSE)

ListReferences ==
    \E p \in Procs, u \in Listers, mw \in BOOLEAN, pl \in PageInputs :
        Free(p) /\ GetAchievementReferencesService(p, u, mw, pl[1], pl[2], FALSE)

ListSelectStep == \E p \in Procs : ListSelect(p, FALSE)

ListJoinStep == \E p \in Procs : ListJoin(p, FALSE)

NextList ==
    \/ CreateByStudent
    \/ CreateReference
    \/ SubmitByStudent
    \/ SoftDeleteByStudent
    \/ ListAchievements
    \/ ListReferences
    \/ ListSelectStep
    \/ ListJoinStep

SpecList == Init /\ [][NextList]_vars

\* ---- Two rows and their content under Create, SoftDelete, HardDelete ----
NextStores ==
    \/ CreateByStudent
    \/ CreateReference
    \/ SoftDeleteByStudent
    \/ HardDeleteStart
    \/ HardDeleteMongo
    \/ HardDeleteRef

SpecStores == Init /\ [][NextStores]_vars

\* ---- Two rows and their content under Create, SoftDelete, HardDelete
\* ---- and the combined list of an administrator ----
ListByAdmin ==
    \E p \in Procs, u \in Admins, pl \in PageInputs :
        Free(p) /\ GetAchievementsService(p, u, FALSE, pl[1], pl[2], FALSE)

NextJoin ==
    \/ CreateByStudent
    \/ CreateReference
    \/ SoftDeleteByStudent
    \/ HardDeleteStart
    \/ HardDeleteMongo
    \/ HardDeleteRef
    \/ ListByAdmin
    \/ ListSelectStep
    \/ ListJoinStep

SpecJoin == Init /\ [][NextJoin]_vars

\* ---- One row and the lists of every account ----
CreateOneByStudent ==
    \E p \in Procs, u \in Students :
        Free(p) /\ CreateAchievementService(p, u, FALSE, CreateReq(Other, << "t" >>,
                                            << "d" >>, "nil"), MaxCreatesOne, FALSE)

CreateOneReference == \E p \in Procs : CreateAchievementDraft(p, FALSE)

ReviewByAdminOk ==
    \E u \in Admins, r \in RequestIds, req \in ReviewInputs :
        ReviewAchievementServiceAdmin(u, r, req.status, req.rejection_note, FALSE)

ListByAccount ==
    \E p \in Procs, u \in Accounts, mw \in BOOLEAN, forAchievements \in BOOLEAN :
        Free(p) /\ ListStart(p, u, mw, 0, 0, forAchievements, FALSE)

NextScope ==
    \/ CreateOneByStudent
    \/ CreateOneReference
    \/ SubmitByStudent
    \/ SoftDeleteByStudent
    \/ ReviewByAdminOk
    \/ ChangeAdvisor
    \/ ListByAccount
    \/ ListSelectStep
    \/ ListJoinStep

SpecScope == Init /\ [][NextScope]_vars

\* ---- Two rows and their content under every transition and HardDelete
\* ---- requests that run at once ----
\* The slot a HardDelete that starts takes: the lowest free one.
FreePurge(p) == procs[p] = Idle /\ \A q \in PurgeProcs : q < p => procs[q] # Idle

PurgeStart ==
    \E p \in PurgeProcs, r \in RequestIds, dbErr \in DbErrs :
        FreePurge(p) /\ HardDeleteAchievementService(p, r, dbErr)

PurgeMongo == \E p \in PurgeProcs, dbErr \in DbErrs : HardDeleteContent(p, dbErr)

PurgeRef == \E p \in PurgeProcs, dbErr \in DbErrs : HardDeleteReference(p, dbErr)

NextPurge ==
    \/ CreateByStudent
    \/ CreateReference
    \/ SubmitByStudent
    \/ SoftDeleteByStudent
    \/ ReviewByAdminOk
    \/ DeleteByAdmin
    \/ PurgeStart
    \/ PurgeMongo
    \/ PurgeRef

SpecPurge == Init /\ [][NextPurge]_vars

\* ---- Two rows, the advisors of their students and the advisors' lists ----
ListByAdvisor ==
    \E p \in Procs, u \in Advisors, pl \in PageInputs, forAchievements \in BOOLEAN :
        Free(p) /\ ListStart(p, u, FALSE, pl[1], pl[2], forAchievements, FALSE)

NextAdvisorList ==
    \/ CreateByStudent
    \/ CreateReference
    \/ SubmitByStudent
    \/ ChangeAdvisor
    \/ ListByAdvisor
    \/ ListSelectStep
    \/ ListJoinStep

SpecAdvisorList == Init /\ [][NextAdvisorList]_vars

\* ---- Login, Logout, Refresh and the protected routes of two users ----
AuthUsers == { "uAdmin", "uS1" }
\* The tokens a request can carry: the tokens issued, and a forged one.
TokenInputs == issued \cup { Forged }

LoginUser ==
    \E u \in AuthUsers, passwordOK \in BOOLEAN, dbErr \in DbErrs :
        Login(u, passwordOK, dbErr)

LogoutUser == \E tok \in TokenInputs, dbErr \in DbErrs : Logout(tok, dbErr)

RefreshToken == \E tok \in TokenInputs : Refresh(tok)

ProtectedRequest == \E tok \in TokenInputs : JWTAuthMiddleware(tok)

NextAuth ==
    \/ LoginUser
    \/ LogoutUser
    \/ RefreshToken
    \/ ProtectedRequest
    \/ Tick

SpecAuth == Init /\ [][NextAuth]_vars

\* ================================================================ claims
\* The step of row r is an edge of the transition graph, taken by the
\* operation that owns the edge.
IsEdge(r) ==
    LET a == refs[r]
        b == refs'[r]
        op == hist'[r].op
    IN
    \/ a = NoRow /\ b.status = AchievementStatusDraft /\ op = "Create"
    \/ /\ a.status = AchievementStatusDraft
       /\ b.status = AchievementStatusSubmitted
       /\ op = "Submit"
    \/ /\ a.status = AchievementStatusSubmitted
       /\ b.status \in { AchievementStatusVerified, AchievementStatusRejected }
       /\ op = "Review"
    \/ /\ a.status = AchievementStatusDraft
       /\ b.status = AchievementStatusDeleted
       /\ op = "DeleteByStudent"
    \/ /\ a.status \in { AchievementStatusDraft, AchievementStatusSubmitted,
                         AchievementStatusVerified, AchievementStatusRejected }
       /\ b.status = AchievementStatusDeleted
       /\ op = "Delete"
    \/ a.status = AchievementStatusDeleted /\ b = NoRow /\ op = "HardDelete"

\* A student's operation moves a row only when the student owns it.
OwnerOnly ==
    /\ resp'.op = "Submit" =>
         \A u \in Users, mw \in BOOLEAN, r \in RequestIds :
           SubmitAchievementService(u, mw, r, FALSE) /\ refs' # refs
               => refs[r].student_id = GetStudentByUserID(u)
    /\ resp'.op = "SoftDelete" =>
         \A u \in Users, mw \in BOOLEAN, r \in RequestIds :
           SoftDeleteAchievementService(u, mw, r, FALSE) /\ refs' # refs
               => refs[r].student_id = GetStudentByUserID(u)

\* An operation on a row that has no edge for it answers with the guard
\* failure of its statement and leaves the table as it was: a step that
\* is not such an answer is not a step of such an operation.
GuardFailures ==
    /\ resp'.op = "Submit" /\ ~(resp'.msg = ErrSubmitGuard /\ refs' = refs) =>
         \A u \in Users, r \in RequestIds :
           refs[r].status # AchievementStatusDraft
               => ~SubmitAchievementService(u, TRUE, r, FALSE)
    /\ resp'.op = "SoftDelete"
          /\ ~(resp'.msg = ErrDeleteByStudentGuard /\ refs' = refs) =>
         \A u \in Users, mw \in BOOLEAN, r \in RequestIds :
           GetStudentByUserID(u) # NULL /\ refs[r].status # AchievementStatusDraft
               => ~SoftDeleteAchievementService(u, mw, r, FALSE)
    /\ resp'.op = "Review" /\ ~(resp'.msg = ErrReviewGuard /\ refs' = refs) =>
         /\ \A u \in Admins, r \in RequestIds, req \in ReviewInputs :
              /\ refs[r].status # AchievementStatusSubmitted
              /\ ReviewValidation(LowerTrim(req.status), req.rejection_note) = ""
              => ~ReviewAchievementServiceAdmin(u, r, req.status,
                                                req.rejection_note, FALSE)
         /\ \A p \in Procs :
              /\ procs[p].op = "Review"
              /\ refs[procs[p].refID].status # AchievementStatusSubmitted
              => ~ReviewAdvisorWrite(p, FALSE)
    /\ resp'.op = "Delete" /\ ~(resp'.msg = ErrDeleteGuard /\ refs' = refs) =>
         \A u \in Admins, r \in RequestIds :
           refs[r].status \in { "none", AchievementStatusDeleted }
               => ~AdminDelete(u, r, FALSE)
    /\ resp'.op = "HardDelete" /\ ~(resp'.msg = ErrHardDeleteGuard /\ refs' = refs) =>
         \A p \in Procs :
           /\ procs[p].op = "HardDelete"
           /\ refs[procs[p].refID].status # AchievementStatusDeleted
           => ~HardDeleteReference(p, FALSE)

\* C1: a row's status changes only along draft->submitted, submitted->
\* verified, submitted->rejected, draft->deleted (owner), non-deleted->
\* deleted (administrator), deleted->removed; SubmitDraft, Review,
\* DeleteByStudent, Delete and HardDelete attempted on a row without that
\* edge return their guard failure and leave every column unchanged.
C1_Transitions ==
    [][ /\ \A r \in RefIds : refs'[r] # refs[r] => IsEdge(r)
        /\ OwnerOnly
        /\ GuardFailures ]_vars

\* A Submit on a verified row was answered with the guard failure.
C1_Witness ==
    /\ resp.op = "Submit"
    /\ resp.msg = ErrSubmitGuard
    /\ \E r \in RefIds : refs[r].status = AchievementStatusVerified

\* A Submit of the owner of row r, carrying the owner's student_uuid, that
\* the store executes.
OwnerSubmit(r) ==
    \E u \in Users :
        /\ GetStudentByUserID(u) # NULL
        /\ GetStudentByUserID(u) = refs[r].student_id
        /\ SubmitAchievementService(u, TRUE, r, FALSE)

\* C2: of the Submit requests of the owning student that race on one
\* draft row, exactly one reports success and every other one reports the
\* guard failure; the row ends submitted, with submitted_at written by the
\* one that succeeded and by no other.
C2_SubmitRace ==
    /\ [](\A r \in RefIds :
            /\ hist[r].submitOK <= 1
            /\ Present(r) =>
                 /\ refs[r].submitted_at # NoTime <=> hist[r].submitOK = 1
                 /\ hist[r].submitOK = 1 => refs[r].status # AchievementStatusDraft)
    /\ [][ resp'.op = "Submit" =>
             \A r \in RequestIds :
               Present(r) /\ OwnerSubmit(r) =>
                 IF refs[r].status = AchievementStatusDraft
                 THEN /\ resp'.code = 200
                      /\ refs'[r].status = AchievementStatusSubmitted
                      /\ refs'[r].submitted_at = Now(refs[r])
                      /\ hist'[r].submitOK = 1
                 ELSE /\ resp'.code = 404
                      /\ resp'.msg = ErrSubmitGuard
                      /\ refs' = refs
                      /\ hist'[r].submitOK = hist[r].submitOK ]_vars

\* Two Submits of the owner ran on one row: one succeeded, the row is
\* submitted, and the last one was answered with the guard failure.
C2_Witness ==
    \E r \in RefIds :
        /\ Present(r)
        /\ refs[r].status = AchievementStatusSubmitted
        /\ refs[r].submitted_at # NoTime
        /\ hist[r].submitOK = 1
        /\ hist[r].submitLost
        /\ resp.op = "Submit"
        /\ resp.code = 404
        /\ resp.msg = ErrSubmitGuard

\* The advisor-of check of the review request in slot p runs.
AdvisorCheckStep(p) ==
    /\ procs[p].op = "Review"
    /\ procs[p].pc = "GetStudentByID"
    /\ procs'[p] # procs[p]

\* Row r becomes verified or rejected in the name of an advisor.
AdvisorReviewStep(r) ==
    /\ refs[r].status = AchievementStatusSubmitted
    /\ refs'[r].status \in { AchievementStatusVerified, AchievementStatusRejected }
    /\ refs'[r].verified_by \in Advisors

\* C3: a review request of an advisor whose lecturer record is not the
\* advisor of the row's owning student is refused and the row is unchanged,
\* although the row is submitted; a row becomes verified or rejected in an
\* advisor's name only by a request that has passed this check.
C3_AdvisorOnly ==
    /\ [][ \A p \in Procs :
             AdvisorCheckStep(p) /\ advisor[procs[p].studentID] # procs[p].lect
                 => /\ resp'.code = 403
                    /\ resp'.msg = "Tidak berhak memproses mahasiswa ini"
                    /\ procs'[p] = Idle
                    /\ refs' = refs ]_vars
    /\ [][ \A r \in RefIds :
             AdvisorReviewStep(r) =>
               \E p \in Procs :
                 /\ procs[p].op = "Review"
                 /\ procs[p].pc = "Review"
                 /\ procs[p].refID = r
                 /\ procs[p].user = refs'[r].verified_by
                 /\ procs[p].studentID = refs[r].student_id
                 /\ procs[p].advisorID = GetLecturerByUserID(procs[p].user) ]_vars

\* An advisor who is not the advisor of the owner of a submitted row has
\* been refused, and the row is still submitted.
C3_Witness ==
    /\ resp.op = "Review"
    /\ resp.code = 403
    /\ resp.msg = "Tidak berhak memproses mahasiswa ini"
    /\ \E r \in RefIds :
         /\ refs[r].status = AchievementStatusSubmitted
         /\ advisor[refs[r].student_id] = "L1"

\* The notes that are missing, empty or white space only.
BlankNotes == { n \in Notes : n = Nil \/ TrimSpace(Deref(n)) = << >> }

ErrNoteRequired == "rejection_note wajib diisi jika status rejected"

\* C4: a Review with the decision rejected and a missing, empty or
\* white-space-only note is answered with the validation error by the
\* administrator's and by the advisor's branch, before any statement is
\* sent to a store; a Review with the decision verified and no note passes
\* validation and verifies a submitted row.
C4_NoteRequired ==
    /\ [](\A r \in RefIds :
            refs[r].status = AchievementStatusRejected
                => refs[r].rejection_note # Nil /\ Deref(refs[r].rejection_note) # << >>)
    /\ [][ resp'.op = "Review" =>
             \A r \in RequestIds, note \in BlankNotes, dbErr \in DbErrs :
               /\ \A u \in Admins :
                    ReviewAchievementServiceAdmin(u, r, "rejected", note, dbErr)
                        => /\ resp'.code = 400
                           /\ resp'.msg = ErrNoteRequired
                           /\ UNCHANGED << refs, contents, procs >>
               /\ \A u \in Advisors, p \in Procs :
                    ReviewAchievementServiceAdvisor(p, u, r, "rejected", note, dbErr)
                        => /\ resp'.code = 400
                           /\ resp'.msg = ErrNoteRequired
                           /\ UNCHANGED << refs, contents, procs >> ]_vars
    /\ [][ resp'.op = "Review" =>
             /\ \A u \in Admins, r \in RequestIds :
                  /\ refs[r].status = AchievementStatusSubmitted
                  /\ ReviewAchievementServiceAdmin(u, r, "verified", Nil, FALSE)
                  => resp'.code = 200 /\ refs'[r].status = AchievementStatusVerified
             /\ \A p \in Procs :
                  /\ procs[p].op = "Review"
                  /\ procs[p].status = AchievementStatusVerified
                  /\ procs[p].note = Nil
                  /\ refs[procs[p].refID].status = AchievementStatusSubmitted
                  /\ ReviewAdvisorWrite(p, FALSE)
                  => /\ resp'.code = 200
                     /\ refs'[procs[p].refID].status = AchievementStatusVerified ]_vars

\* A rejection without a note has been refused while a row was submitted.
C4_Witness ==
    /\ resp.op = "Review"
    /\ resp.code = 400
    /\ resp.msg = ErrNoteRequired
    /\ \E r \in RefIds : refs[r].status = AchievementStatusSubmitted

\* C5: a HardDelete of a reference row whose status is not deleted fails
\* and leaves both stores as they were; a content record or a reference
\* row is removed only while the reference row has the status deleted.
C5_HardDeleteGuard ==
    /\ [][ \A r \in RequestIds, p \in Procs, dbErr \in DbErrs :
             /\ Present(r)
             /\ refs[r].status # AchievementStatusDeleted
             /\ HardDeleteAchievementService(p, r, dbErr)
             => /\ resp'.op = "HardDelete"
                /\ resp'.code = IF dbErr THEN 404 ELSE 400
                /\ UNCHANGED << refs, contents, procs >> ]_vars
    /\ [][ /\ \A m \in MongoIds :
                contents[m] # NoDoc /\ contents'[m] = NoDoc
                    => \E r \in RefIds :
                         /\ Present(r)
                         /\ refs[r].mongo_achievement_id = m
                         /\ refs[r].status = AchievementStatusDeleted
           /\ \A r \in RefIds :
                Present(r) /\ refs'[r] = NoRow
                    => refs[r].status = AchievementStatusDeleted ]_vars

\* A HardDelete of a row that is not deleted has been refused; the row and
\* its content record are in place.
C5_Witness ==
    /\ resp.op = "HardDelete"
    /\ resp.code = 400
    /\ resp.msg = "Hard delete hanya boleh untuk status deleted"
    /\ \E r \in RefIds :
         /\ Present(r)
         /\ refs[r].status = AchievementStatusVerified
         /\ contents[refs[r].mongo_achievement_id] # NoDoc

\* The reference rows of a list reply.
ListedRows(reply) ==
    IF reply.msg = "Data achievements berhasil diambil"
    THEN [ i \in 1..Len(reply.data) |-> reply.data[i].Reference.row ]
    ELSE [ i \in 1..Len(reply.data) |-> reply.data[i].row ]

\* C6: the list a student receives holds only rows whose owning student
\* is that student, and no row whose status is deleted.
C6_StudentList ==
    /\ resp.op = "List"
    /\ resp.code = 200
    /\ resolveRoleName(resp.to) = "mahasiswa"
    => \A i \in 1..Len(resp.data) :
         /\ ListedRows(resp)[i].student_id = GetStudentByUserID(resp.to)
         /\ ListedRows(resp)[i].status # AchievementStatusDeleted

\* A student has received a list of one row, their own, while the table
\* also holds a row of the other student.
C6_Witness ==
    /\ resp.op = "List"
    /\ resp.code = 200
    /\ resp.to = "uS1"
    /\ Len(resp.data) = 1
    /\ ListedRows(resp)[1].student_id = "S1"
    /\ \E r \in RefIds : Present(r) /\ refs[r].student_id = "S2"

\* The step is a Review of the submitted row r by reviewer with the
\* decision st and the note of the request, and it leaves the row as
\* stated: the note as stored(note).
ReviewedAs(r, reviewer, st, stored) ==
    /\ refs[r].status = AchievementStatusSubmitted
    /\ refs[r].submitted_at # NoTime
    /\ refs'[r].status = st
    /\ refs'[r].verified_at # NoTime
    /\ refs'[r].verified_by = reviewer
    /\ st = AchievementStatusVerified => refs'[r].rejection_note = Nil
    /\ st = AchievementStatusRejected => refs'[r].rejection_note = stored

\* Every successful Review, of the administrator and of the advisor,
\* leaves the row as ReviewedAs says, Stored(note) being the note it keeps.
ReviewRoundTrip(Stored(_)) ==
    resp'.op = "Review" /\ resp'.code = 200 =>
      /\ \A u \in Admins, r \in RequestIds, req \in ReviewInputs :
           ReviewAchievementServiceAdmin(u, r, req.status, req.rejection_note, FALSE)
               => ReviewedAs(r, u, LowerTrim(req.status), Stored(req.rejection_note))
      /\ \A p \in Procs :
           procs[p].op = "Review" /\ ReviewAdvisorWrite(p, FALSE)
               => ReviewedAs(procs[p].refID, procs[p].user, procs[p].status,
                             Stored(procs[p].note))

AsSupplied(note) == note
Trimmed(note) == Ptr(TrimSpace(Deref(note)))

\* C7 (as stated): after Create, Submit and Review(verified) the row is
\* verified with verified_at and verified_by = the reviewer set and no
\* note, whatever note came with the decision; after Review(rejected,
\* note = x) with non-empty x the row is rejected with verified_by = the
\* reviewer and rejection_note = x.
C7_AsStated == [][ ReviewRoundTrip(AsSupplied) ]_vars

\* C7 (amended): the same, the note kept by Review(rejected, note = x)
\* being x without its leading and trailing white space, for x that holds
\* a character other than white space.
C7_RoundTrip == [][ ReviewRoundTrip(Trimmed) ]_vars

\* A row has been rejected with the note " x" and keeps "x".
C7_Witness ==
    /\ resp.op = "Review"
    /\ resp.code = 200
    /\ \E r \in RefIds :
         /\ refs[r].status = AchievementStatusRejected
         /\ hist[r].op = "Review"
         /\ hist[r].note = Ptr(<< " ", "x" >>)
         /\ refs[r].rejection_note = Ptr(<< "x" >>)
         /\ refs[r].verified_by # NULL

\* The reference rows of table t that point at content record m.
RefsOf(t, m) == { r \in RefIds : t[r] # NoRow /\ t[r].mongo_achievement_id = m }

\* C8 (as stated): in every reachable state each content record has
\* exactly one reference row: none is without a row, none has two.
C8_AsStated ==
    \A m \in MongoIds : contents[m] # NoDoc => Cardinality(RefsOf(refs, m)) = 1

\* C8 (amended): no two reference rows point at the same content record;
\* a content record is without a reference row only from the content write
\* of its Create until the reference insertion of that Create, and for
\* good when that insertion fails; when the insertion succeeds the content
\* record has exactly one reference row, and keeps it while it exists.
C8_OneToOne ==
    /\ [](\A m \in MongoIds : Cardinality(RefsOf(refs, m)) <= 1)
    /\ [][ \A m \in MongoIds :
             contents'[m] # NoDoc /\ RefsOf(refs', m) = {}
                 => contents[m] = NoDoc \/ RefsOf(refs, m) = {} ]_vars
    /\ [][ \A p \in Procs :
             procs[p].op = "Create" /\ procs'[p] = Idle
                 => /\ contents'[procs[p].mongoID] # NoDoc
                    /\ IF resp'.code = 201
                       THEN Cardinality(RefsOf(refs', procs[p].mongoID)) = 1
                       ELSE resp'.code = 500 /\ RefsOf(refs', procs[p].mongoID) = {} ]_vars

\* The reference insertion of a Create has failed: its content record is
\* without a reference row, while another content record has its one row.
C8_Witness ==
    /\ resp.op = "Create"
    /\ resp.code = 500
    /\ resp.msg = "Gagal membuat reference"
    /\ \A p \in Procs : procs[p] = Idle
    /\ \E m1, m2 \in MongoIds :
         /\ contents[m1] # NoDoc
         /\ Cardinality(RefsOf(refs, m1)) = 1
         /\ contents[m2] # NoDoc
         /\ RefsOf(refs, m2) = {}

\* Row r has a non-empty rejection note.
HasNote(r) == refs[r].rejection_note # Nil /\ Deref(refs[r].rejection_note) # << >>

\* The current status of row r was produced by a Review whose request
\* carried a note that Stored turns into the note of the row.
RejectedWith(r, Stored(_)) ==
    /\ refs[r].status = AchievementStatusRejected
    /\ hist[r].op = "Review"
    /\ hist[r].note # Nil
    /\ refs[r].rejection_note = Stored(hist[r].note)

\* C9 (as stated): a verified row has no rejection note, and a row has a
\* non-empty rejection note if and only if its status is rejected and the
\* Review that produced that status supplied that note.
C9_AsStated ==
    \A r \in RefIds :
        Present(r) =>
            /\ refs[r].status = AchievementStatusVerified => refs[r].rejection_note = Nil
            /\ HasNote(r) <=> RejectedWith(r, AsSupplied)

\* C9 (amended): a verified row has no rejection note, and a row has a
\* non-empty rejection note if and only if its status is rejected and the
\* Review that produced that status supplied that note, with or without
\* leading and trailing white space, which the row does not keep; no row
\* keeps an empty note.
C9_NoteIffRejected ==
    \A r \in RefIds :
        Present(r) =>
            /\ refs[r].status = AchievementStatusVerified => refs[r].rejection_note = Nil
            /\ HasNote(r) <=> RejectedWith(r, Trimmed)
            /\ refs[r].rejection_note # Nil => HasNote(r)

\* A rejected row keeps the note "x" of a Review that supplied " x".
C9_Witness ==
    \E r \in RefIds :
        /\ Present(r)
        /\ HasNote(r)
        /\ RejectedWith(r, Trimmed)
        /\ ~RejectedWith(r, AsSupplied)

\* C10: verified_by is non-null only on rows whose last transition was a
\* Review or the administrator's Delete; a row its owning student has
\* soft-deleted, a draft row and a submitted row have verified_by = NULL.
C10_VerifiedBy ==
    \A r \in RefIds :
        Present(r) =>
            /\ refs[r].verified_by # NULL => hist[r].op \in { "Review", "Delete" }
            /\ hist[r].op = "DeleteByStudent" => refs[r].verified_by = NULL
            /\ refs[r].status \in { AchievementStatusDraft, AchievementStatusSubmitted }
                   => refs[r].verified_by = NULL

\* A row soft-deleted by its owning student: verified_at is set,
\* verified_by is not.
C10_Witness ==
    \E r \in RefIds :
        /\ Present(r)
        /\ refs[r].status = AchievementStatusDeleted
        /\ hist[r].op = "DeleteByStudent"
        /\ refs[r].verified_at # NoTime
        /\ refs[r].verified_by = NULL

\* The statuses the state machine calls terminal.
TerminalStatuses ==
    { AchievementStatusVerified, AchievementStatusRejected, AchievementStatusDeleted }

\* C11 (as stated): once a row is verified, rejected or deleted no step
\* changes its status; the only further change is the removal of a
\* deleted row.
C11_AsStated ==
    [][ \A r \in RefIds :
          refs[r].status \in TerminalStatuses
              => \/ refs'[r].status = refs[r].status
                 \/ refs[r].status = AchievementStatusDeleted /\ refs'[r] = NoRow ]_vars

\* C11 (amended): a deleted row is never changed again, except that
\* HardDelete removes it; a verified or rejected row is never changed by
\* Submit, Review or DeleteByStudent, and is left only through the
\* administrator's Delete, which moves it to deleted.
C11_Terminal ==
    [][ \A r \in RefIds :
          /\ refs[r].status = AchievementStatusDeleted
                => \/ refs'[r] = refs[r]
                   \/ refs'[r] = NoRow /\ hist'[r].op = "HardDelete"
          /\ refs[r].status \in { AchievementStatusVerified, AchievementStatusRejected }
                => \/ refs'[r] = refs[r]
                   \/ /\ refs'[r].status = AchievementStatusDeleted
                      /\ hist'[r].op = "Delete" ]_vars

\* A row that was created, submitted and reviewed has been deleted by the
\* administrator (its fourth write), and a Review of it has then been
\* refused with the guard failure.
C11_Witness ==
    /\ resp.op = "Review"
    /\ resp.msg = ErrReviewGuard
    /\ \E r \in RefIds :
         /\ refs[r].status = AchievementStatusDeleted
         /\ hist[r].op = "Delete"
         /\ refs[r].submitted_at = 2
         /\ refs[r].updated_at = 4

\* Row r is written by the step and is a row before and after it.
Rewritten(r) == Present(r) /\ refs'[r] # NoRow /\ refs'[r] # refs[r]

\* The step writes submitted_at of row r only as the draft->submitted
\* transition does, on a row that has none.
SubmittedAtOnce(r) ==
    refs'[r].submitted_at # refs[r].submitted_at
        => /\ refs[r].submitted_at = NoTime
           /\ refs[r].status = AchievementStatusDraft
           /\ refs'[r].status = AchievementStatusSubmitted
           /\ hist'[r].op = "Submit"

\* The step writes verified_at / verified_by of row r.
VerifierWritten(r) ==
    \/ refs'[r].verified_at # refs[r].verified_at
    \/ refs'[r].verified_by # refs[r].verified_by

\* The write is the one of Review, or of a transition to deleted.
VerifierWriter(r) ==
    \/ /\ refs[r].status = AchievementStatusSubmitted
       /\ refs'[r].status \in { AchievementStatusVerified, AchievementStatusRejected }
       /\ hist'[r].op = "Review"
    \/ /\ refs[r].status # AchievementStatusDeleted
       /\ refs'[r].status = AchievementStatusDeleted
       /\ hist'[r].op \in { "Delete", "DeleteByStudent" }

\* C12 (as stated): submitted_at is written at most once, by the
\* draft->submitted transition; verified_at / verified_by are written at
\* most once, by the submitted->verified|rejected transition or by a
\* transition to deleted; no step overwrites a value already set.
C12_AsStated ==
    [][ \A r \in RefIds :
          Rewritten(r) =>
            /\ SubmittedAtOnce(r)
            /\ VerifierWritten(r) => VerifierWriter(r) /\ refs[r].verified_at = NoTime ]_vars

\* C12 (amended): submitted_at is written at most once, by the
\* draft->submitted transition, and never overwritten; verified_at /
\* verified_by are written by the submitted->verified|rejected transition
\* and by each transition to deleted, so that the administrator's Delete
\* of a verified or rejected row overwrites the pair that Review has set;
\* no other step overwrites a pair already set, and the pair is written at
\* most twice.
C12_SetOnce ==
    /\ [](\A r \in RefIds :
            Present(r) =>
              (refs[r].verified_at # NoTime <=> refs[r].status \in TerminalStatuses))
    /\ [][ \A r \in RefIds :
             Rewritten(r) =>
               /\ SubmittedAtOnce(r)
               /\ VerifierWritten(r) => VerifierWriter(r)
               /\ VerifierWritten(r) /\ refs[r].verified_at # NoTime
                      => /\ hist'[r].op = "Delete"
                         /\ refs[r].status \in { AchievementStatusVerified,
                                                  AchievementStatusRejected } ]_vars

\* The administrator has deleted a reviewed row: the pair that Review
\* wrote (third write of the row) now carries the time of the Delete
\* (fourth write) and the administrator; submitted_at is as Submit left it.
C12_Witness ==
    \E r \in RefIds :
        /\ refs[r].status = AchievementStatusDeleted
        /\ hist[r].op = "Delete"
        /\ refs[r].submitted_at = 2
        /\ refs[r].verified_at = 4
        /\ refs[r].verified_by \in Admins

\* The content step of the HardDelete in slot p runs, without a store
\* error, on a content record that is already absent.
RetryOnAbsentContent(p) ==
    /\ procs[p].op = "HardDelete"
    /\ procs[p].pc = "MongoDelete"
    /\ Present(procs[p].refID)
    /\ contents[procs[p].mongoID] = NoDoc
    /\ HardDeleteContent(p, FALSE)

\* C13: a HardDelete repeated after a HardDelete that removed the content
\* record and stopped before removing the reference row treats the absent
\* content record as success and goes on to remove the reference row.
C13_RetrySafe ==
    [][ \A p \in Procs :
          RetryOnAbsentContent(p)
              => procs'[p] = [ procs[p] EXCEPT !.pc = "HardDelete" ] ]_vars

\* A repeated HardDelete has been refused because the content record is
\* absent; the reference row is still there, deleted, and no handler is
\* at work on it.
C13_Stuck ==
    /\ resp.op = "HardDelete"
    /\ resp.code = 404
    /\ resp.msg = ErrMongoNotFound
    /\ \A p \in Procs : procs[p] = Idle
    /\ \E r \in RefIds :
         /\ Present(r)
         /\ refs[r].status = AchievementStatusDeleted
         /\ contents[refs[r].mongo_achievement_id] = NoDoc

\* The content deletion of the HardDelete in slot p fails: the handler
\* ends at its content step.
ContentDeleteFails(p) ==
    /\ procs[p].op = "HardDelete"
    /\ procs[p].pc = "MongoDelete"
    /\ procs'[p] = Idle

CreateContentStep(p) == procs[p] = Idle /\ procs'[p].op = "Create"

\* The Create in slot p ends at its reference insertion.
CreateReferenceStep(p) == procs[p].op = "Create" /\ procs'[p] = Idle

\* C15: Create writes the content record first, for the caller's student
\* id, and the reference store is untouched by that step; the reference
\* row is inserted after it, in status draft, owned by that student and
\* pointing at that content record; when the insertion fails Create
\* answers with an error, deletes nothing, and the content record stays
\* without a reference row.
C15_CreateOrder ==
    /\ [][ \A p \in Procs :
             CreateContentStep(p) =>
               /\ refs' = refs
               /\ contents[nextMongo] = NoDoc
               /\ contents' = [ contents EXCEPT ![nextMongo] =
                                  [ ID |-> nextMongo, studentId |-> procs'[p].studentUUID ] ]
               /\ procs'[p].mongoID = nextMongo
               /\ \A u \in Users, mw \in BOOLEAN, req \in CreateInputs, dbErr \in DbErrs :
                    CreateAchievementService(p, u, mw, req, MaxCreates, dbErr)
                        => procs'[p].studentUUID = GetStudentByUserID(u) ]_vars
    /\ [][ \A p \in Procs :
             CreateReferenceStep(p) =>
               /\ contents' = contents
               /\ contents[procs[p].mongoID] # NoDoc
               /\ IF resp'.code = 201
                  THEN /\ refs[nextRef] = NoRow
                       /\ refs'[nextRef].status = AchievementStatusDraft
                       /\ refs'[nextRef].student_id = procs[p].studentUUID
                       /\ refs'[nextRef].mongo_achievement_id = procs[p].mongoID
                       /\ \A r \in RefIds \ { nextRef } : refs'[r] = refs[r]
                  ELSE /\ resp'.code = 500
                       /\ resp'.msg = "Gagal membuat reference"
                       /\ refs' = refs
                       /\ RefsOf(refs', procs[p].mongoID) = {} ]_vars

\* The first Create has failed at its reference insertion: no reference
\* row has ever been inserted, and the content record it wrote is there.
C15_Witness ==
    /\ resp.op = "Create"
    /\ resp.code = 500
    /\ resp.msg = "Gagal membuat reference"
    /\ nextRef = 1
    /\ \A r \in RefIds : refs[r] = NoRow
    /\ contents[1] # NoDoc
    /\ contents[1].studentId \in StudentIds

\* The request lacks its category, title or description, or names a
\* category outside the enumeration.
CreateInvalid(req) ==
    \/ TrimSpace(req.achievement_type) = << >>
    \/ TrimSpace(req.title) = << >>
    \/ TrimSpace(req.description) = << >>
    \/ LowerSeq(TrimSpace(req.achievement_type)) \notin AchievementTypeOneOf

\* The step is one a Create of a student answers a request with.
CreateAnswer(p) ==
    /\ procs[p] = Idle
    /\ \/ procs'[p].op = "Create"
       \/ procs'[p] = Idle /\ resp'.op = "Create"

\* C16: Create answers a request without category, title or description,
\* or with a category that is not academic, competition, organization,
\* publication, certification or other, with a validation error and
\* writes neither store.
C16_Validation ==
    [][ \A p \in Procs :
          CreateAnswer(p) =>
            \A u \in Users, mw \in BOOLEAN, req \in CreateInputs, dbErr \in DbErrs :
              /\ GetStudentByUserID(u) # NULL
              /\ CreateInvalid(req)
              /\ CreateAchievementService(p, u, mw, req, MaxCreates, dbErr)
              => /\ resp'.op = "Create"
                 /\ resp'.code = 400
                 /\ UNCHANGED << refs, contents, procs >> ]_vars

\* The reply each operation gives for a reference row that does not exist.
SubmitRefused == Reply("Submit", 404, ErrSubmitGuard)
SoftDeleteRefused == Reply("SoftDelete", 404, ErrDeleteByStudentGuard)
AdminReviewRefused == Reply("Review", 404, ErrReviewGuard)
AdvisorReviewRefused == Reply("Review", 404, ErrRefNotFound)

\* Row r is not one the student of account u may move out of draft: it
\* does not exist, is not theirs, or is not a draft.
NotForStudent(u, r) ==
    \/ ~Present(r)
    \/ refs[r].student_id # GetStudentByUserID(u)
    \/ refs[r].status # AchievementStatusDraft

\* Submit and SoftDelete of a student answer alike for the three causes.
UniformForStudents ==
    /\ resp'.op = "Submit" =>
         \A u \in Users, r \in RequestIds :
           /\ GetStudentByUserID(u) # NULL
           /\ NotForStudent(u, r)
           /\ SubmitAchievementService(u, TRUE, r, FALSE)
           => resp' = SubmitRefused /\ refs' = refs
    /\ resp'.op = "SoftDelete" =>
         \A u \in Users, mw \in BOOLEAN, r \in RequestIds :
           /\ GetStudentByUserID(u) # NULL
           /\ NotForStudent(u, r)
           /\ SoftDeleteAchievementService(u, mw, r, FALSE)
           => resp' = SoftDeleteRefused /\ refs' = refs

\* Review of the administrator answers alike for a row that does not
\* exist and for a row in the wrong status.
UniformForAdmin ==
    resp'.op = "Review" =>
      \A u \in Admins, r \in RequestIds, req \in ReviewInputs :
        /\ ~(Present(r) /\ refs[r].status = AchievementStatusSubmitted)
        /\ ReviewValidation(LowerTrim(req.status), req.rejection_note) = ""
        /\ ReviewAchievementServiceAdmin(u, r, req.status, req.rejection_note, FALSE)
        => resp' = AdminReviewRefused /\ refs' = refs

\* Review of an advisor answers alike for a row that does not exist, for
\* a row in the wrong status and for a row of a student they do not
\* advise.
UniformForAdvisor ==
    resp'.op = "Review" =>
      /\ \A p \in Procs, u \in Advisors, r \in RequestIds, req \in ReviewInputs :
           /\ ~(Present(r) /\ refs[r].status = AchievementStatusSubmitted)
           /\ ReviewValidation(LowerTrim(req.status), req.rejection_note) = ""
           /\ ReviewAchievementServiceAdvisor(p, u, r, req.status,
                                              req.rejection_note, FALSE)
           => resp' = AdvisorReviewRefused /\ refs' = refs
      /\ \A p \in Procs :
           /\ procs[p].op = "Review"
           /\ procs[p].pc = "GetStudentByID"
           /\ advisor[procs[p].studentID] # procs[p].lect
           /\ ReviewAdvisorCheck(p, FALSE)
           => resp' = AdvisorReviewRefused /\ refs' = refs

\* C17: Submit, SoftDelete and Review each answer a caller in one and the
\* same way whether the row does not exist, is not one the caller may act
\* on, or is in the wrong status.
C17_Uniform == [][ UniformForStudents /\ UniformForAdmin /\ UniformForAdvisor ]_vars

\* An advisor has been told that the row they named exists and is not
\* submitted.
C17_Leak ==
    /\ resp = Reply("Review", 400, "Hanya boleh memproses status submitted")
    /\ \E r \in RefIds : Present(r) /\ refs[r].status = AchievementStatusVerified

\* The replies of the four operations to a request that fails validation,
\* names a row that does not exist or fails the guard of its statement.
RefusedReplies ==
    { SubmitRefused, SoftDeleteRefused, AdminReviewRefused, AdvisorReviewRefused,
      Reply("Review", 400, ErrNoteRequired),
      Reply("Review", 400, "Status harus verified/rejected"),
      Reply("Review", 400, "Hanya boleh memproses status submitted"),
      Reply("HardDelete", 404, "achievement reference tidak ditemukan"),
      Reply("HardDelete", 400, "Hard delete hanya boleh untuk status deleted"),
      Reply("HardDelete", 404, ErrMongoNotFound),
      Reply("HardDelete", 404, ErrHardDeleteGuard) }

\* The step answers a store failure as such: not with success and not
\* with one of the replies above; it writes nothing.
StoreFailureSurfaced ==
    /\ resp'.code # 200
    /\ resp' \notin RefusedReplies
    /\ refs' = refs
    /\ contents' = contents

\* Submit, SoftDelete and the administrator's Review: one statement each.
StoreFailureOneStatement ==
    /\ resp'.op = "Submit" =>
         \A u \in Users, r \in RequestIds :
           GetStudentByUserID(u) # NULL /\ SubmitAchievementService(u, TRUE, r, TRUE)
               => StoreFailureSurfaced
    /\ resp'.op = "SoftDelete" =>
         \A u \in Users, mw \in BOOLEAN, r \in RequestIds :
           GetStudentByUserID(u) # NULL /\ SoftDeleteAchievementService(u, mw, r, TRUE)
               => StoreFailureSurfaced
    /\ resp'.op = "Review" =>
         \A u \in Admins, r \in RequestIds, req \in ReviewInputs :
           /\ ReviewValidation(LowerTrim(req.status), req.rejection_note) = ""
           /\ ReviewAchievementServiceAdmin(u, r, req.status, req.rejection_note, TRUE)
           => StoreFailureSurfaced

\* The advisor's Review and HardDelete: the failing statement ends the
\* handler, which does not send it again.
StoreFailureInHandler ==
    /\ resp'.op = "Review" =>
         /\ \A p \in Procs, u \in Advisors, r \in RequestIds, req \in ReviewInputs :
              /\ Present(r)
              /\ ReviewValidation(LowerTrim(req.status), req.rejection_note) = ""
              /\ ReviewAchievementServiceAdvisor(p, u, r, req.status,
                                                 req.rejection_note, TRUE)
              => StoreFailureSurfaced /\ procs'[p] = Idle
         /\ \A p \in Procs :
              procs[p].op = "Review" /\ ReviewAdvisorWrite(p, TRUE)
                  => StoreFailureSurfaced /\ procs'[p] = Idle
    /\ resp'.op = "HardDelete" =>
         /\ \A p \in Procs, r \in RequestIds :
              Present(r) /\ HardDeleteAchievementService(p, r, TRUE)
                  => StoreFailureSurfaced /\ procs'[p] = Idle
         /\ \A p \in Procs :
              procs[p].op = "HardDelete" /\ HardDeleteContent(p, TRUE)
                  => StoreFailureSurfaced /\ procs'[p] = Idle
         /\ \A p \in Procs :
              procs[p].op = "HardDelete" /\ HardDeleteReference(p, TRUE)
                  => StoreFailureSurfaced /\ procs'[p] = Idle

\* C18: a failure of a store during Submit, Review, SoftDelete or
\* HardDelete, the first read of the row included, is answered with an
\* error that is neither a validation error nor the not-found / guard
\* failure, and the handler does not repeat the statement.
C18_StoreErrors == [][ StoreFailureOneStatement /\ StoreFailureInHandler ]_vars

\* A HardDelete of the one row there is has been answered "not found"
\* while the row is in place: the read of the row had failed.
C18_Swallowed ==
    /\ resp = Reply("HardDelete", 404, "achievement reference tidak ditemukan")
    /\ nextRef = 2
    /\ Present(1)

AllStatuses ==
    { AchievementStatusDraft, AchievementStatusSubmitted, AchievementStatusVerified,
      AchievementStatusRejected, AchievementStatusDeleted }

\* The scope of account u as stated: TRUE for granted, the statuses, the
\* student filter and the advisor filter.
StatedScope(u) ==
    LET role == resolveRoleName(u)
        student == GetStudentByUserID(u)
        lecturer == GetLecturerByUserID(u)
    IN
    IF role = "admin" THEN << TRUE, AllStatuses, NULL, NULL >>
    ELSE IF role = "mahasiswa" /\ student # NULL
    THEN << TRUE, AllStatuses \ { AchievementStatusDeleted }, student, NULL >>
    ELSE IF role = "dosen wali" /\ lecturer # NULL
    THEN << TRUE, { AchievementStatusSubmitted }, NULL, lecturer >>
    ELSE IF role = "staff"
    THEN << TRUE, { AchievementStatusVerified, AchievementStatusRejected }, NULL, NULL >>
    ELSE << FALSE, {}, NULL, NULL >>

\* What allowedStatusesByRole returns, in the same form.
ResolvedScope(u, mw) ==
    LET sc == allowedStatusesByRole(u, mw) IN
    << sc.err = OK, sc.statuses, sc.studentFilter, sc.advisorFilter >>

\* C19: the scope resolver gives the administrator the five statuses and
\* no filter, a student draft, submitted, verified, rejected and their own
\* student id as the student filter, an advisor submitted and their own
\* lecturer id as the advisor filter, staff verified and rejected and no
\* filter; for any other role, and for a student or an advisor role
\* without a student or lecturer record, it fails, and the list handler
\* answers 403 without a query to the reference store.
C19_Scope ==
    /\ [](\A u \in Accounts, mw \in BOOLEAN :
            (mw => StudentOnlyMiddleware(u)) => ResolvedScope(u, mw) = StatedScope(u))
    /\ [][ \A p \in Procs :
             procs[p] = Idle /\ (procs'[p].op = "List" \/ resp'.op = "List") =>
               \A u \in Accounts, mw \in BOOLEAN, forAchievements \in BOOLEAN :
                 ListStart(p, u, mw, 0, 0, forAchievements, FALSE) =>
                   IF StatedScope(u)[1]
                   THEN /\ procs'[p].op = "List"
                        /\ procs'[p].scope.statuses = StatedScope(u)[2]
                        /\ procs'[p].scope.studentFilter = StatedScope(u)[3]
                        /\ procs'[p].scope.advisorFilter = StatedScope(u)[4]
                   ELSE /\ resp'.op = "List"
                        /\ resp'.code = 403
                        /\ resp'.data = << >>
                        /\ procs' = procs ]_vars
    /\ [](resp.op = "List" /\ resp.code = 200 =>
            /\ StatedScope(resp.to)[1]
            /\ \A i \in 1..Len(resp.data) :
                 /\ ListedRows(resp)[i].status \in StatedScope(resp.to)[2]
                 /\ StatedScope(resp.to)[3] # NULL
                        => ListedRows(resp)[i].student_id = StatedScope(resp.to)[3])

\* The list of an account whose role has a scope but which has no
\* lecturer record has been refused, while a submitted row was there.
C19_Witness ==
    /\ resp.op = "List"
    /\ resp.code = 403
    /\ resp.to = "uL0"
    /\ resp.msg = "dosen wali tidak ditemukan"
    /\ \A p \in Procs : procs[p] = Idle
    /\ \E r \in RefIds : Present(r) /\ refs[r].status = AchievementStatusSubmitted

ReviewerRoles == { "admin", "dosen wali" }
ErrRoleNotAllowed == Reply("Review", 403, "Role tidak diperbolehkan untuk aksi ini")

\* C20: a Review of an actor whose role is neither administrator nor
\* advisor (a student, staff, any other role) is answered 403 and no
\* statement is sent to a store; a submitted row becomes verified or
\* rejected only in the name of an administrator or an advisor.
C20_ReviewRoles ==
    /\ [][ resp'.op = "Review"
              /\ ~(resp' = ErrRoleNotAllowed /\ UNCHANGED << refs, contents, procs >>) =>
             \A u \in Accounts, r \in RequestIds, req \in ReviewInputs :
               resolveRoleName(u) \notin ReviewerRoles
                   => ~ReviewAchievementServiceOther(u, r, req.status,
                                                     req.rejection_note) ]_vars
    /\ [][ \A r \in RefIds :
             /\ refs[r].status = AchievementStatusSubmitted
             /\ refs'[r].status \in { AchievementStatusVerified, AchievementStatusRejected }
             => resolveRoleName(refs'[r].verified_by) \in ReviewerRoles ]_vars
    /\ [](\A r \in RefIds :
            refs[r].status \in { AchievementStatusVerified, AchievementStatusRejected }
                => resolveRoleName(refs[r].verified_by) \in ReviewerRoles)

\* A Review of an actor without a reviewer's role has been refused; the
\* row is still submitted and carries no reviewer.
C20_Witness ==
    /\ resp = ErrRoleNotAllowed
    /\ \E r \in RefIds :
         /\ refs[r].status = AchievementStatusSubmitted
         /\ refs[r].verified_by = NULL

\* ---------------------------------------------------------------- C21
\* Row r is not a draft of the student of user u.
NotOwnDraft(u, r) ==
    /\ Present(r)
    /\ \/ refs[r].student_id # GetStudentByUserID(u)
       \/ refs[r].status # AchievementStatusDraft

\* C21: a Submit or a SoftDelete of a student on a row of another student,
\* or on a row that is not a draft, leaves the table as it was, whatever
\* the request context and the store do; when the handler has resolved the
\* student (Submit: student_uuid in the request context) and the statement
\* runs, the answer is the guard failure of the statement.
C21_OwnDraftOnly ==
    [][ /\ resp'.op = "Submit" /\ refs' # refs =>
             \A u \in Users, mw \in BOOLEAN, r \in RequestIds, dbErr \in DbErrs :
               NotOwnDraft(u, r) => ~SubmitAchievementService(u, mw, r, dbErr)
        /\ resp'.op = "Submit" /\ resp'.msg # ErrSubmitGuard =>
             \A u \in Users, r \in RequestIds :
               NotOwnDraft(u, r) => ~SubmitAchievementService(u, TRUE, r, FALSE)
        /\ resp'.op = "SoftDelete" /\ refs' # refs =>
             \A u \in Users, mw \in BOOLEAN, r \in RequestIds, dbErr \in DbErrs :
               NotOwnDraft(u, r) => ~SoftDeleteAchievementService(u, mw, r, dbErr)
        /\ resp'.op = "SoftDelete" /\ resp'.msg # ErrDeleteByStudentGuard =>
             \A u \in Users, mw \in BOOLEAN, r \in RequestIds :
               GetStudentByUserID(u) # NULL /\ NotOwnDraft(u, r)
                   => ~SoftDeleteAchievementService(u, mw, r, FALSE) ]_vars

\* A SoftDelete named a draft and was answered with the guard failure: the
\* row is the draft of another student.
C21_Witness ==
    /\ resp.op = "SoftDelete"
    /\ resp.msg = ErrDeleteByStudentGuard
    /\ \E r \in RefIds : Present(r) /\ refs[r].status = AchievementStatusDraft

\* ---------------------------------------------------------------- C22
\* C22: the combined list answers with one entry per row the SELECT of
\* ListByStatuses has returned, in the order of the SELECT, newest
\* created_at first; the entry of a row whose mongo_achievement_id names no
\* document of the content store carries the row and the zero document,
\* the entry of any other row the document stored under that id.
C22_Join ==
    [][ \A p \in Procs :
          /\ procs[p].op = "List"
          /\ procs[p].pc = "GetByIDs"
          /\ procs'[p] = Idle
          /\ resp'.code = 200
          => LET rows == procs[p].rows
                 data == resp'.data
             IN
             /\ Len(data) = Len(rows)
             /\ \A i \in 1..Len(rows) :
                  LET m == rows[i].row.mongo_achievement_id IN
                  /\ data[i].Reference = rows[i]
                  /\ IF contents[m] = NoDoc
                     THEN data[i].Achievement = NoDoc
                     ELSE /\ data[i].Achievement = contents[m]
                          /\ data[i].Achievement.ID = m
             /\ \A i, j \in 1..Len(rows) :
                  i < j => rows[i].row.created_at > rows[j].row.created_at ]_vars

\* An administrator has received two entries: the newer row without its
\* document, the older row with it.
C22_Witness ==
    /\ resp.op = "List"
    /\ resp.code = 200
    /\ resp.msg = "Data achievements berhasil diambil"
    /\ Len(resp.data) = 2
    /\ resp.data[1].Achievement = NoDoc
    /\ resp.data[2].Achievement # NoDoc
    /\ resp.data[2].Achievement.ID = resp.data[2].Reference.row.mongo_achievement_id

\* ---------------------------------------------------------------- C23
\* C23: the administrator's Delete of a row whose status is not deleted
\* leaves it deleted with verified_at set to the time of the statement,
\* verified_by the administrator and rejection_note NULL, every other
\* column and every other row as they were; on a deleted row or a missing
\* row it returns the guard failure and changes nothing.
C23_ForceDelete ==
    [][ resp'.op = "Delete" =>
          \A u \in Admins, r \in RequestIds :
            AdminDelete(u, r, FALSE) =>
              IF Present(r) /\ refs[r].status # AchievementStatusDeleted
              THEN /\ resp'.msg = OK
                   /\ refs'[r].status = AchievementStatusDeleted
                   /\ refs'[r].verified_at = refs'[r].updated_at
                   /\ refs'[r].verified_at > refs[r].updated_at
                   /\ refs'[r].verified_by = u
                   /\ refs'[r].rejection_note = Nil
                   /\ refs'[r].student_id = refs[r].student_id
                   /\ refs'[r].mongo_achievement_id = refs[r].mongo_achievement_id
                   /\ refs'[r].submitted_at = refs[r].submitted_at
                   /\ refs'[r].created_at = refs[r].created_at
                   /\ \A q \in RefIds \ { r } : refs'[q] = refs[q]
              ELSE /\ resp'.msg = ErrDeleteGuard
                   /\ refs' = refs ]_vars

\* A row that had been submitted has been deleted by the administrator.
C23_Witness ==
    /\ resp.op = "Delete"
    /\ resp.msg = OK
    /\ \E r \in RefIds :
         /\ hist[r].op = "Delete"
         /\ refs[r].submitted_at # NoTime
         /\ refs[r].status = AchievementStatusDeleted
         /\ refs[r].verified_by \in Admins
         /\ refs[r].rejection_note = Nil

\* ---------------------------------------------------------------- C24
\* The accounts without a student record.
NoStudent == { u \in Accounts : GetStudentByUserID(u) = NULL }

\* The reply is 403 Forbidden to op and no store, no handler has moved.
Forbidden(op) ==
    /\ resp'.op = op
    /\ resp'.code = 403
    /\ UNCHANGED << refs, contents, nextRef, nextMongo, procs, hist >>

\* C24: a Create, a Submit or a SoftDelete of an account without a student
\* record is answered 403 Forbidden, and the step writes neither the
\* content store nor the reference store.
C24_NoStudent ==
    [][ /\ (resp'.op = "Create" \/ procs' # procs) /\ ~Forbidden("Create") =>
             \A p \in Procs, u \in NoStudent, mw \in BOOLEAN, req \in CreateInputs,
                dbErr \in DbErrs :
               ~CreateAchievementService(p, u, mw, req, MaxCreatesOne, dbErr)
        /\ resp'.op = "Submit" /\ ~Forbidden("Submit") =>
             \A u \in NoStudent, mw \in BOOLEAN, r \in RequestIds, dbErr \in DbErrs :
               ~SubmitAchievementService(u, mw, r, dbErr)
        /\ resp'.op = "SoftDelete" /\ ~Forbidden("SoftDelete") =>
             \A u \in NoStudent, mw \in BOOLEAN, r \in RequestIds, dbErr \in DbErrs :
               ~SoftDeleteAchievementService(u, mw, r, dbErr) ]_vars

\* A SoftDelete of an account without a student record has been refused
\* while the table holds a draft.
C24_Witness ==
    /\ resp.op = "SoftDelete"
    /\ resp.code = 403
    /\ resp.msg = "mahasiswa tidak memiliki student_id"
    /\ \E r \in RefIds : Present(r) /\ refs[r].status = AchievementStatusDraft

\* ---------------------------------------------------------------- C25
\* C25: JWTAuthMiddleware never lets a request through whose token was
\* issued before a successful Logout of the token's user.
C25_LogoutRevokes ==
    [][ resp'.op = "Protected" /\ resp'.code = 200 =>
          \A tok \in TokenInputs :
            JWTAuthMiddleware(tok) => tok \notin loggedOut ]_vars

\* A protected route has been entered with a token issued before a Logout
\* of its user: the user has logged in again and the token has not expired.
C25_StaleToken ==
    /\ resp.op = "Protected"
    /\ resp.code = 200
    /\ resp.token \in loggedOut
    /\ is_active[resp.token.user_id]

\* ---------------------------------------------------------------- C26
\* C26: a Submit of the owner of a draft through the routes of SetupRoutes
\* (no StudentOnlyMiddleware, so no student_uuid in the request context)
\* is answered 200 and leaves the row submitted with submitted_at set.
C26_RoutedSubmit ==
    [][ resp'.op = "Submit" =>
          \A u \in Students, r \in RequestIds :
            /\ Present(r)
            /\ refs[r].status = AchievementStatusDraft
            /\ refs[r].student_id = GetStudentByUserID(u)
            /\ SubmitAchievementService(u, FALSE, r, FALSE)
            => /\ resp'.code = 200
               /\ refs'[r].status = AchievementStatusSubmitted
               /\ refs'[r].submitted_at # NoTime ]_vars

\* A Submit has been refused as forbidden while the table holds a draft
\* that was never submitted.
C26_Refused ==
    /\ resp.op = "Submit"
    /\ resp.code = 403
    /\ resp.msg = "Hanya mahasiswa yang dapat mengakses"
    /\ \E r \in RefIds :
         /\ Present(r)
         /\ refs[r].status = AchievementStatusDraft
         /\ hist[r].submitOK = 0

\* ---------------------------------------------------------------- C27
\* The step leaves row r with the status, verifier and note given, and is
\* answered 200.
WonWith(r, st, by, note) ==
    /\ resp'.code = 200
    /\ refs'[r].status = st
    /\ refs'[r].verified_by = by
    /\ refs'[r].rejection_note = note
    /\ \A q \in RefIds \ { r } : refs'[q] = refs[q]

\* The step is answered with the guard failure msg and writes nothing.
LostWith(msg) ==
    /\ resp'.code = 404
    /\ resp'.msg = msg
    /\ refs' = refs

C28_AdvisorAtWrite ==
    [][ resp'.op = "Review" /\ resp'.code = 200 =>
          \A p \in Procs :
            /\ procs[p].op = "Review"
            /\ procs[p].pc = "Review"
            /\ ReviewAdvisorWrite(p, FALSE)
            => advisor[refs[procs[p].refID].student_id] = procs[p].lect ]_vars

\* An advisor's Review has passed the advisor check and its statement has
\* not run yet; the students table no longer names the advisor for the
\* student, and the row is still submitted.
C28_StaleAdvisor ==
    \E p \in Procs :
        /\ procs[p].op = "Review"
        /\ procs[p].pc = "Review"
        /\ procs[p].advisorID = procs[p].lect
        /\ advisor[procs[p].studentID] # procs[p].lect
        /\ refs[procs[p].refID].status = AchievementStatusSubmitted

\* ---------------------------------------------------------------- C29
\* C29: every reference row whose status is draft, submitted, verified or
\* rejected names a document that is in the content store; a document
\* leaves the content store only in a state in which a reference row
\* names it and that row is deleted, and an id whose document has left
\* never holds a document again, so no document is removed twice.
C29_ContentKept ==
    /\ [](\A r \in RefIds :
            Present(r) /\ refs[r].status # AchievementStatusDeleted
                => contents[refs[r].mongo_achievement_id] # NoDoc)
    /\ [][ \A m \in MongoIds :
             /\ contents[m] # NoDoc /\ contents'[m] = NoDoc
                  => \E r \in RefIds :
                       /\ Present(r)
                       /\ refs[r].mongo_achievement_id = m
                       /\ refs[r].status = AchievementStatusDeleted
             /\ contents[m] = NoDoc /\ m < nextMongo => contents'[m] = NoDoc ]_vars

\* Two HardDelete requests of one deleted row are in flight: one has
\* removed the document and is about to remove the row, the other is about
\* to ask the content store for the same removal.
C29_Witness ==
    \E p, q \in PurgeProcs :
        /\ procs[p].op = "HardDelete"
        /\ procs[q].op = "HardDelete"
        /\ procs[p].pc = "HardDelete"
        /\ procs[q].pc = "MongoDelete"
        /\ procs[p].refID = procs[q].refID
        /\ contents[procs[p].mongoID] = NoDoc
        /\ refs[procs[p].refID].status = AchievementStatusDeleted
        /\ \E r \in RefIds : Present(r) /\ refs[r].status = AchievementStatusDraft

\* ---------------------------------------------------------------- C30
\* The submitted rows of the students whose advisor_id is the lecturer
\* record of user u, in the current state.
Advised(u) ==
    { r \in RefIds :
        /\ Present(r)
        /\ refs[r].status = AchievementStatusSubmitted
        /\ advisor[refs[r].student_id] # NULL
        /\ advisor[refs[r].student_id] = GetLecturerByUserID(u) }

\* The rows the SELECT step of the list in slot p has returned.
Selected(p) ==
    IF procs[p].forAchievements THEN procs'[p].rows ELSE resp'.data

\* C30: the COUNT of an advisor's list is the number of submitted rows of
\* students whose advisor_id is the advisor's lecturer id in the state the
\* COUNT runs in, whatever page and limit are; the SELECT returns rows of
\* that kind only, each once, as many as the page holds, and with the
\* default page and limit exactly those rows.
C30_AdvisorList ==
    [][ \A p \in Procs :
          /\ /\ procs[p] = Idle
             /\ procs'[p].op = "List"
             /\ resolveRoleName(procs'[p].user) = "dosen wali"
             => procs'[p].total = Cardinality(Advised(procs'[p].user))
          /\ /\ procs[p].op = "List"
             /\ procs[p].pc = "Select"
             /\ resolveRoleName(procs[p].user) = "dosen wali"
             /\ procs'[p] # procs[p]
             => LET rows == Selected(p)
                    ids == { rows[i].id : i \in 1..Len(rows) }
                    all == Cardinality(Advised(procs[p].user))
                    limit == LimitOf(procs[p].limit)
                    offset == (PageOf(procs[p].page) - 1) * limit
                    rest == IF all > offset THEN all - offset ELSE 0
                IN
                /\ ids \subseteq Advised(procs[p].user)
                /\ \A i \in 1..Len(rows) : rows[i].row = refs[rows[i].id]
                /\ Cardinality(ids) = Len(rows)
                /\ Len(rows) = IF rest < limit THEN rest ELSE limit
                /\ procs[p].page = 0 /\ procs[p].limit = 0
                       => ids = Advised(procs[p].user) ]_vars

\* The advisor of S1 has received one row, a row of S1, while a submitted
\* row of S2, who has no advisor, is in the table.
C30_Witness ==
    /\ resp.op = "List"
    /\ resp.code = 200
    /\ resp.to = "uL1"
    /\ resp.total = 1
    /\ Len(resp.data) = 1
    /\ ListedRows(resp)[1].student_id = "S1"
    /\ advisor["S1"] = "L1"
    /\ advisor["S2"] = NULL
    /\ \E r \in RefIds :
         /\ Present(r)
         /\ refs[r].student_id = "S2"
         /\ refs[r].status = AchievementStatusSubmitted

====
